---- MODULE Spec2Model ----
(***************************************************************************)
(* State backend and execution core of the development node / test runner: *)
(* the Executor's call / deploy / commit / success protocol                *)
(* (crates/evm/evm/src/executors/mod.rs), the Db stores                     *)
(* (anvil/src/eth/backend/db.rs) and the fork handle with its cache         *)
(* (anvil/src/eth/backend/fork.rs).                                         *)
(***************************************************************************)
EXTENDS Integers, Sequences, FiniteSets, TLC

VARIABLES
    executor,   \* struct Executor { backend, env, inspector, gas_limit }
    res,        \* the value the last Executor operation returned to its caller
    store,      \* a store implementing Db: CacheDB<ExtDB> or ForkedDatabase
    dbop,       \* the last Db operation, what it returned and what preceded it
    fork,       \* struct ClientFork { storage, config }; its database is `store`
    callers,    \* where each thread holding a clone of the fork is in its call
    last,       \* what the last call on the fork returned to a single caller
    hist,       \* history of the calls on the fork (not program state)
    backend2,   \* struct Backend2 { forks, db, snapshots } and what its last call returned
    node,       \* the node process: the fork it serves and where its shutdown handler is
    pure        \* a call of a free function: its arguments and what it returned

execVars == <<executor, res>>
dbVars == <<store, dbop>>
forkVars == <<fork, callers, last, hist>>
otherVars == <<backend2, node, pure>>
vars == <<executor, res, store, dbop, fork, callers, last, hist, backend2, node, pure>>

(***************************************************************************)
(* Rust Option / Result                                                    *)
(***************************************************************************)
None == <<>>
Some(v) == <<v>>
Option(S) == {None} \cup {Some(v) : v \in S}
unwrap(o) == o[1]
unwrap_or(o, d) == IF o = None THEN d ELSE o[1]
unwrap_or_default(o, d) == unwrap_or(o, d)

(***************************************************************************)
(* Bounds and universes                                                    *)
(***************************************************************************)
MaxBalance == 1
MaxLen == 4
MaxForks == 2
MaxRequests == 2
MaxGas == 3
MaxName == 8

CHEATCODE_ADDRESS == "CHEAT"
CALLER == "X"
\* the CREATE2 deployer and the address its bootstrap deploys it from
DEFAULT_CREATE2_DEPLOYER == "DEPLOYER"
creator == "CREATOR"
DEFAULT_CREATE2_DEPLOYER_CODE == "create2 deployer code"
Address == {"X", "Y", CHEATCODE_ADDRESS, DEFAULT_CREATE2_DEPLOYER, creator}
UserAddress == {"X", "Y"}
Slot == {"failed"}
StorageValue == {0, 1}
Balance == 0 .. MaxBalance

\* revm::primitives::AccountInfo; code = TRUE stands for non-empty bytecode
AccountInfo == [balance : Balance, code : BOOLEAN]
AccountInfoDefault == [balance |-> 0, code |-> FALSE]

\* one entry of a StateChangeset: the account's absolute post-call info and
\* the storage slots the call designated a value for
Account == [info : AccountInfo, storage : [Slot -> Option(StorageValue)]]
NoSlots == [s \in Slot |-> None]
NoChanges == [a \in Address |-> None]
Touch(a, info, st) == [NoChanges EXCEPT ![a] = Some([info |-> info, storage |-> st])]

return_ok(exit_reason) == exit_reason \in {"Continue", "Stop", "Return", "SelfDestruct"}

(***************************************************************************)
(* Backend                                                                 *)
(***************************************************************************)
EmptyBackend ==
    [accounts |-> [a \in Address |-> None],
     storage |-> [a \in Address |-> [s \in Slot |-> 0]],
     has_snapshot_failure |-> FALSE,
     persistent_accounts |-> {}]

basic_ref(backend, address) == backend.accounts[address]

insert_account_info(backend, address, account) ==
    [backend EXCEPT !.accounts[address] = Some(account)]

add_persistent_account(backend, address) ==
    [backend EXCEPT !.persistent_accounts = @ \cup {address}]

clone_empty(backend) == EmptyBackend

\* Backend::commit: every address of the changeset gets its new AccountInfo
\* (created when absent), every slot with a designated value is overwritten
Backend_commit(backend, changes) ==
    [backend EXCEPT
        !.accounts = [a \in Address |->
            IF changes[a] = None THEN @[a] ELSE Some(unwrap(changes[a]).info)],
        !.storage = [a \in Address |-> [s \in Slot |->
            IF changes[a] = None \/ unwrap(changes[a]).storage[s] = None THEN @[a][s]
            ELSE unwrap(unwrap(changes[a]).storage[s])]]]

(***************************************************************************)
(* Environment                                                             *)
(***************************************************************************)
EnvTemplate ==
    [cfg |-> [chain_id |-> 1],
     block |-> [number |-> 0, basefee |-> 1, gas_limit |-> 3],
     tx |-> [caller |-> CALLER, transact_to |-> <<"Call", "Y">>, data |-> "",
             value |-> 0, gas_price |-> 1, gas_priority_fee |-> Some(1), gas_limit |-> 3]]

\* Executor::build_test_env
build_test_env(ex, caller, transact_to, data, value) ==
    [cfg |-> ex.env.cfg,
     block |-> [ex.env.block EXCEPT !.basefee = 0, !.gas_limit = ex.gas_limit],
     tx |-> [ex.env.tx EXCEPT !.caller = caller, !.transact_to = transact_to,
                              !.data = data, !.value = value, !.gas_price = 0,
                              !.gas_priority_fee = None, !.gas_limit = ex.gas_limit]]

(***************************************************************************)
(* The interpreter drive (Backend::inspect_ref), an opaque capability:     *)
(* for a transaction it yields an error, or an exit status with returned   *)
(* data, a changeset and the cheatcode activity of the run.  A value       *)
(* transfer moves `value` from the caller to the target when the call      *)
(* succeeds.  `menu` is the family of outcomes a specification explores.   *)
(***************************************************************************)
MAGIC_SKIP == "FOUNDRY::SKIP"
NoEffect == [broadcast |-> FALSE, snapshot_failure |-> FALSE]

TransferChanges(backend, from, to, value) ==
    LET f == unwrap_or(backend.accounts[from], AccountInfoDefault)
        t == unwrap_or(backend.accounts[to], AccountInfoDefault)
    IN  [a \in Address |->
            IF a = from THEN Some([info |-> [f EXCEPT !.balance = @ - value], storage |-> NoSlots])
            ELSE IF a = to THEN Some([info |-> [t EXCEPT !.balance = @ + value], storage |-> NoSlots])
            ELSE None]

\* the changesets that write one account: any info and slot values for a user
\* account, a slot value under the stored info for the cheatcode account
Touches(backend) ==
    {NoChanges} \cup
    {Touch(a, i, st) : a \in {"Y"}, i \in AccountInfo, st \in [Slot -> Option(StorageValue)]} \cup
    {Touch(CHEATCODE_ADDRESS,
           unwrap_or(backend.accounts[CHEATCODE_ADDRESS], AccountInfoDefault), st) :
        st \in [Slot -> Option(StorageValue)]}

Outs(env, menu) ==
    IF env.tx.transact_to[1] = "Create"
    THEN {<<"Create", "", None>>} \cup {<<"Create", "", Some(a)>> : a \in menu.created}
    ELSE {<<"Call", d>> : d \in menu.datas}

ExecErr == [err |-> TRUE]

inspect_ref(backend, env, menu) ==
    LET from == env.tx.caller
        value == env.tx.value
        isCall == env.tx.transact_to[1] = "Call"
        funds == unwrap_or(backend.accounts[from], AccountInfoDefault).balance
        ok(exit, state, out, eff) ==
            [err |-> FALSE, exit_reason |-> exit, state |-> state,
             out |-> IF exit = "OutOfGas" THEN None ELSE Some(out), effect |-> eff]
    IN  IF value > funds THEN {ExecErr}
        ELSE IF value > 0 /\ isCall
        THEN LET to == env.tx.transact_to[2]
                 room == unwrap_or(backend.accounts[to], AccountInfoDefault).balance + value
                            <= MaxBalance
             IN  {ok("Revert", NoChanges, <<"Call", "">>, NoEffect)} \cup
                 (IF room
                  THEN {ok("Return", TransferChanges(backend, from, to, value),
                           <<"Call", "">>, NoEffect)}
                  ELSE {})
        ELSE {ExecErr} \cup
             {ok(x[1], x[2][1], x[3], x[2][2]) :
                 x \in (menu.exits \X menu.runs \X Outs(env, menu))}

(***************************************************************************)
(* Results                                                                 *)
(***************************************************************************)
\* calldata of at most MaxLen bytes; 0, 1 and 255 stand for the byte values
Byte == {0, 1, 255}
Calldata == UNION {[1 .. n -> Byte] : n \in 0 .. MaxLen}

\* revm SpecId: the specifications in the order of their activation
SpecRank == [PETERSBURG |-> 1, ISTANBUL |-> 2, LATEST |-> 3]
SpecId == DOMAIN SpecRank
SpecId_enabled(our, other) == SpecRank[our] >= SpecRank[other]

\* calldata.iter().fold(sum, |sum, byte| sum + if *byte == 0 { 4 } else { cost })
RECURSIVE fold_stipend(_, _, _)
fold_stipend(calldata, sum, non_zero_data_cost) ==
    IF calldata = <<>> THEN sum
    ELSE fold_stipend(Tail(calldata),
                      sum + (IF Head(calldata) = 0 THEN 4 ELSE non_zero_data_cost),
                      non_zero_data_cost)

\* a plausible slip: the Istanbul price whatever the specification
calc_stipend_istanbul(calldata, spec) == fold_stipend(calldata, 21000, 16)

\* calc_stipend
calc_stipend(calldata, spec) ==
    LET non_zero_data_cost == IF SpecId_enabled(spec, "ISTANBUL") THEN 16 ELSE 68
    IN  fold_stipend(calldata, 21000, non_zero_data_cost)

Ok(v) == [ok |-> TRUE, val |-> v]
Err(e) == [ok |-> FALSE, err |-> e]

\* calc_stipend is reported on results only; it is modelled with the calldata claims
\* convert_executed_result
convert_executed_result(env, inspector, result, has_snapshot_failure) ==
    LET out == IF result.exit_reason = "Revert" /\ result.out # None
               THEN Some(<<"Call", unwrap(result.out)[2]>>)
               ELSE result.out
        data == IF out # None /\ unwrap(out)[1] = "Call" THEN unwrap(out)[2] ELSE ""
        cheatcodes == inspector.cheatcodes
        transactions ==
            IF cheatcodes # None /\ unwrap(cheatcodes).broadcastable_transactions # 0
            THEN Some(unwrap(cheatcodes).broadcastable_transactions)
            ELSE None
    IN  Ok([exit_reason |-> result.exit_reason,
            reverted |-> ~return_ok(result.exit_reason),
            has_snapshot_failure |-> has_snapshot_failure,
            result |-> data,
            transactions |-> transactions,
            state_changeset |-> Some(result.state),
            env |-> env,
            cheatcodes |-> cheatcodes,
            out |-> out])

\* Function::abi_decode_output for the functions the executor calls
abi_decode_output(func, data) ==
    IF func = "failed()(bool)"
    THEN IF data \in {"true", "false"} THEN Ok(data = "true") ELSE Err("AbiError")
    ELSE Ok("unit")

\* a plausible slip: the skip value is not looked for
convert_call_result_no_skip(func, call_result) ==
    IF return_ok(call_result.exit_reason)
    THEN LET decoded == abi_decode_output(func, call_result.result)
         IN  IF ~decoded.ok THEN Err([kind |-> "AbiError"])
             ELSE Ok([skipped |-> FALSE,
                      reverted |-> call_result.reverted,
                      result |-> decoded.val,
                      transactions |-> call_result.transactions,
                      state_changeset |-> call_result.state_changeset,
                      env |-> call_result.env])
    ELSE Err([kind |-> "Execution",
              reverted |-> call_result.reverted,
              reason |-> call_result.result,
              transactions |-> call_result.transactions,
              state_changeset |-> call_result.state_changeset])

\* convert_call_result
convert_call_result(func, call_result) ==
    IF return_ok(call_result.exit_reason)
    THEN LET decoded == abi_decode_output(func, call_result.result)
         IN  IF ~decoded.ok THEN Err([kind |-> "AbiError"])
             ELSE Ok([skipped |-> FALSE,
                      reverted |-> call_result.reverted,
                      result |-> decoded.val,
                      transactions |-> call_result.transactions,
                      state_changeset |-> call_result.state_changeset,
                      env |-> call_result.env])
    ELSE IF call_result.result = MAGIC_SKIP THEN Err([kind |-> "SkipError"])
    ELSE Err([kind |-> "Execution",
              reverted |-> call_result.reverted,
              reason |-> call_result.result,
              transactions |-> call_result.transactions,
              state_changeset |-> call_result.state_changeset])

(***************************************************************************)
(* Executor                                                                *)
(***************************************************************************)
\* a plausible slip: the cheatcode account is only created when it is absent
Executor_new_keeps_existing(backend, env, inspector, gas_limit) ==
    [backend |-> IF basic_ref(backend, CHEATCODE_ADDRESS) # None THEN backend
                 ELSE insert_account_info(backend, CHEATCODE_ADDRESS,
                                          [AccountInfoDefault EXCEPT !.code = TRUE]),
     env |-> env, inspector |-> inspector, gas_limit |-> gas_limit]

\* Executor::new
Executor_new(backend, env, inspector, gas_limit) ==
    [backend |-> insert_account_info(backend, CHEATCODE_ADDRESS,
                                     [AccountInfoDefault EXCEPT !.code = TRUE]),
     env |-> env, inspector |-> inspector, gas_limit |-> gas_limit]

\* the inspector stack after a run: the cheatcode state has recorded the
\* transactions broadcast during the run
inspector_after(inspector, effect) ==
    IF inspector.cheatcodes = None \/ ~effect.broadcast THEN inspector
    ELSE [inspector EXCEPT !.cheatcodes =
            Some([unwrap(@) EXCEPT !.broadcastable_transactions = 1])]

\* InspectorStack::set_env
set_env(inspector, env) ==
    [inspector EXCEPT !.block = Some(env.block), !.gas_price = Some(env.tx.gas_price)]

\* Executor::set_balance
set_balance(ex, address, amount) ==
    LET account == unwrap_or_default(basic_ref(ex.backend, address), AccountInfoDefault)
    IN  [ex EXCEPT !.backend =
            insert_account_info(@, address, [account EXCEPT !.balance = amount])]

\* Executor::get_balance
get_balance(ex, address) ==
    unwrap_or_default(basic_ref(ex.backend, address), AccountInfoDefault).balance

\* a plausible slip: the non-committing call runs on the executor's own backend
\* and keeps the changeset
call_raw_leaky(ex, from, to, calldata, value, oc) ==
    LET env == build_test_env(ex, from, <<"Call", to>>, calldata, value)
    IN  IF oc.err THEN [ex |-> ex, ret |-> Err([kind |-> "Eyre"])]
        ELSE [ex |-> [ex EXCEPT !.backend = Backend_commit(@, oc.state)],
              ret |-> convert_executed_result(env, inspector_after(ex.inspector, oc.effect),
                          oc, oc.effect.snapshot_failure)]

\* Executor::call_raw: the run uses a clone of the inspector and a
\* copy-on-write wrapper of the backend, both dropped on return
call_raw(ex, from, to, calldata, value, oc) ==
    LET inspector == ex.inspector
        env == build_test_env(ex, from, <<"Call", to>>, calldata, value)
        has_snapshot_failure ==
            oc.effect.snapshot_failure \/ ex.backend.has_snapshot_failure
    IN  IF oc.err THEN [ex |-> ex, ret |-> Err([kind |-> "Eyre"])]
        ELSE [ex |-> ex,
              ret |-> convert_executed_result(env, inspector_after(inspector, oc.effect),
                          oc, has_snapshot_failure)]

\* Executor::call
call(ex, from, to, func, value, oc) ==
    LET r == call_raw(ex, from, to, func, value, oc)
    IN  IF ~r.ret.ok THEN r
        ELSE [ex |-> r.ex, ret |-> convert_call_result(func, r.ret.val)]

\* Executor::call_raw_with_env: the run has mutable access to the backend, so
\* a snapshot failure it causes is recorded on the backend itself
call_raw_with_env(ex, env, oc) ==
    IF oc.err THEN [ex |-> ex, ret |-> Err([kind |-> "Eyre"])]
    ELSE LET backend == [ex.backend EXCEPT !.has_snapshot_failure =
                            @ \/ oc.effect.snapshot_failure]
         IN  [ex |-> [ex EXCEPT !.backend = backend],
              ret |-> convert_executed_result(env, inspector_after(ex.inspector, oc.effect),
                          oc, backend.has_snapshot_failure)]

\* a plausible slip: only the changeset of a successful call is persisted
Executor_commit_on_success(ex, result) ==
    LET cheatcodes ==
            IF result.cheatcodes = None THEN None
            ELSE Some([unwrap(result.cheatcodes) EXCEPT !.broadcastable_transactions = 0])
    IN  [ex |-> [ex EXCEPT
                    !.backend = IF result.state_changeset # None /\ ~result.reverted
                                THEN Backend_commit(@, unwrap(result.state_changeset))
                                ELSE @,
                    !.inspector = set_env([@ EXCEPT !.cheatcodes = cheatcodes], result.env)],
         result |-> [result EXCEPT !.cheatcodes = None]]

\* a plausible slip: the cheatcode state is retained with its pending list
Executor_commit_keeps_broadcast(ex, result) ==
    [ex |-> [ex EXCEPT
                !.backend = IF result.state_changeset # None
                            THEN Backend_commit(@, unwrap(result.state_changeset))
                            ELSE @,
                !.inspector = set_env([@ EXCEPT !.cheatcodes = result.cheatcodes], result.env)],
     result |-> [result EXCEPT !.cheatcodes = None]]

\* Executor::commit
Executor_commit(ex, result) ==
    LET cheatcodes ==
            IF result.cheatcodes = None THEN None
            ELSE Some([unwrap(result.cheatcodes) EXCEPT !.broadcastable_transactions = 0])
    IN  [ex |-> [ex EXCEPT
                    !.backend = IF result.state_changeset # None
                                THEN Backend_commit(@, unwrap(result.state_changeset))
                                ELSE @,
                    !.inspector = set_env([@ EXCEPT !.cheatcodes = cheatcodes], result.env)],
         result |-> [result EXCEPT !.cheatcodes = None]]

\* Executor::commit_tx_with_env
commit_tx_with_env(ex, env, oc) ==
    LET r == call_raw_with_env(ex, env, oc)
    IN  IF ~r.ret.ok THEN r
        ELSE LET c == Executor_commit(r.ex, r.ret.val)
             IN  [ex |-> c.ex, ret |-> Ok(c.result)]

\* a plausible slip: the result is returned without the commit
call_raw_committing_uncommitted(ex, from, to, calldata, value, oc) ==
    call_raw_with_env(ex, build_test_env(ex, from, <<"Call", to>>, calldata, value), oc)

\* Executor::call_raw_committing
call_raw_committing(ex, from, to, calldata, value, oc) ==
    commit_tx_with_env(ex, build_test_env(ex, from, <<"Call", to>>, calldata, value), oc)

\* a plausible slip: the sender is marked persistent, whatever the outcome
deploy_with_env_marks_sender(ex, env, oc) ==
    LET r == call_raw_with_env(ex, env, oc)
    IN  IF ~r.ret.ok THEN r
        ELSE LET c == Executor_commit(r.ex, r.ret.val)
                 result == c.result
                 out == result.out
                 marked == [c.ex EXCEPT !.backend = add_persistent_account(@, env.tx.caller)]
             IN  IF return_ok(result.exit_reason)
                      /\ out # None /\ unwrap(out)[1] = "Create" /\ unwrap(out)[3] # None
                 THEN [ex |-> marked,
                       ret |-> Ok([address |-> unwrap(unwrap(out)[3]), env |-> result.env])]
                 ELSE [ex |-> marked,
                       ret |-> Err([kind |-> "Execution", reverted |-> TRUE,
                                    reason |-> "decoded",
                                    transactions |-> None, state_changeset |-> None])]

\* Executor::deploy_with_env
deploy_with_env(ex, env, oc) ==
    LET r == call_raw_with_env(ex, env, oc)
    IN  IF ~r.ret.ok THEN r
        ELSE LET c == Executor_commit(r.ex, r.ret.val)
                 result == c.result
                 out == result.out
             IN  IF return_ok(result.exit_reason)
                 THEN IF out # None /\ unwrap(out)[1] = "Create" /\ unwrap(out)[3] # None
                      THEN LET address == unwrap(unwrap(out)[3])
                           IN  [ex |-> [c.ex EXCEPT !.backend = add_persistent_account(@, address)],
                                ret |-> Ok([address |-> address, env |-> result.env])]
                      ELSE [ex |-> c.ex,
                            ret |-> Err([kind |-> "Execution", reverted |-> TRUE,
                                         reason |-> "Deployment succeeded, but no address was returned",
                                         transactions |-> None, state_changeset |-> None])]
                 ELSE [ex |-> c.ex,
                       ret |-> Err([kind |-> "Execution", reverted |-> TRUE,
                                    reason |-> "decoded",
                                    transactions |-> None, state_changeset |-> None])]

\* Executor::deploy
deploy(ex, from, code, value, oc) ==
    deploy_with_env(ex, build_test_env(ex, from, <<"Create">>, code, value), oc)

\* a plausible slip: an absent deployer account is taken for an empty one
deploy_create2_deployer_absent_as_empty(ex, oc) ==
    LET create2_deployer_account ==
            unwrap_or(basic_ref(ex.backend, DEFAULT_CREATE2_DEPLOYER), AccountInfoDefault)
    IN  IF ~create2_deployer_account.code
        THEN LET initial_balance == get_balance(ex, creator)
                 r == deploy(set_balance(ex, creator, MaxBalance), creator,
                             DEFAULT_CREATE2_DEPLOYER_CODE, 0, oc)
             IN  IF ~r.ret.ok THEN [ex |-> r.ex, ret |-> r.ret, deployed |-> FALSE]
                 ELSE [ex |-> set_balance(r.ex, creator, initial_balance),
                       ret |-> Ok("unit"), deployed |-> TRUE]
        ELSE [ex |-> ex, ret |-> Ok("unit"), deployed |-> FALSE]

\* Executor::deploy_create2_deployer; U256::MAX is MaxBalance; deployed says
\* whether the deployment was made
deploy_create2_deployer(ex, oc) ==
    LET create2_deployer_account == basic_ref(ex.backend, DEFAULT_CREATE2_DEPLOYER)
    IN  IF create2_deployer_account = None
        THEN [ex |-> ex,
              ret |-> Err([kind |-> "MissingAccount", address |-> DEFAULT_CREATE2_DEPLOYER]),
              deployed |-> FALSE]
        ELSE IF ~unwrap(create2_deployer_account).code
        THEN LET initial_balance == get_balance(ex, creator)
                 r == deploy(set_balance(ex, creator, MaxBalance), creator,
                             DEFAULT_CREATE2_DEPLOYER_CODE, 0, oc)
             IN  IF ~r.ret.ok THEN [ex |-> r.ex, ret |-> r.ret, deployed |-> FALSE]
                 ELSE [ex |-> set_balance(r.ex, creator, initial_balance),
                       ret |-> Ok("unit"), deployed |-> TRUE]
        ELSE [ex |-> ex, ret |-> Ok("unit"), deployed |-> FALSE]

(***************************************************************************)
(* Success evaluation                                                      *)
(***************************************************************************)
\* what failed()(bool) reads on a backend: the test contract's `failed`
\* variable and the globalFailure flag in the state of the cheatcode address
FailedFlag(backend, address) ==
    \/ backend.storage[address]["failed"] = 1
    \/ backend.storage[CHEATCODE_ADDRESS]["failed"] = 1

\* the outcomes of the failed()(bool) probe: it may fail to run, revert,
\* return undecodable data, or return the flag
ProbeMenu(backend, address) ==
    [exits |-> {"Return", "Revert"},
     runs |-> {<<NoChanges, NoEffect>>},
     datas |-> {"", IF FailedFlag(backend, address) THEN "true" ELSE "false"},
     created |-> {}]

\* the minimal backend of ensure_success: the basic info of the test contract
\* and of the cheatcode account, with the changeset committed on top
MinimalBackend(ex, address, state_changeset) ==
    LET b0 == clone_empty(ex.backend)
        b1 == insert_account_info(b0, address,
                  unwrap_or_default(basic_ref(ex.backend, address), AccountInfoDefault))
        b2 == insert_account_info(b1, CHEATCODE_ADDRESS,
                  unwrap_or_default(basic_ref(ex.backend, CHEATCODE_ADDRESS), AccountInfoDefault))
    IN  Backend_commit(b2, state_changeset)

\* a plausible slip: the outcome is should_fail == success instead of should_fail ^ success
ensure_success_xnor(ex, address, reverted, state_changeset, should_fail, db_error, oc) ==
    IF ex.backend.has_snapshot_failure
    THEN [ret |-> Ok(should_fail), backend |-> None, call |-> None]
    ELSE IF db_error
    THEN [ret |-> Err("DatabaseError"), backend |-> Some(clone_empty(ex.backend)), call |-> None]
    ELSE LET backend == MinimalBackend(ex, address, state_changeset)
             probe == call(Executor_new(backend, ex.env, ex.inspector, ex.gas_limit),
                           CALLER, address, "failed()(bool)", 0, oc).ret
             success == IF reverted THEN FALSE
                        ELSE IF probe.ok THEN ~probe.val.result ELSE TRUE
         IN  [ret |-> Ok(should_fail = success), backend |-> Some(backend),
              call |-> IF reverted THEN None ELSE Some(probe)]

\* Executor::ensure_success; `backend` and `call` record the minimal backend
\* built and the probe call issued, if any
ensure_success(ex, address, reverted, state_changeset, should_fail, db_error, oc) ==
    IF ex.backend.has_snapshot_failure
    THEN [ret |-> Ok(should_fail), backend |-> None, call |-> None]
    ELSE IF db_error
    THEN [ret |-> Err("DatabaseError"), backend |-> Some(clone_empty(ex.backend)), call |-> None]
    ELSE LET backend == MinimalBackend(ex, address, state_changeset)
             probe == call(Executor_new(backend, ex.env, ex.inspector, ex.gas_limit),
                           CALLER, address, "failed()(bool)", 0, oc).ret
             success == IF reverted THEN FALSE
                        ELSE IF probe.ok THEN ~probe.val.result ELSE TRUE
         IN  [ret |-> Ok(should_fail # success), backend |-> Some(backend),
              call |-> IF reverted THEN None ELSE Some(probe)]

\* a plausible slip: a database error counts as the expected failure
is_success_error_as_failure(ex, address, reverted, state_changeset, should_fail, db_error, oc) ==
    LET r == ensure_success(ex, address, reverted, state_changeset, should_fail, db_error, oc)
    IN  [r EXCEPT !.ret = IF r.ret.ok THEN r.ret.val ELSE should_fail]

\* Executor::is_success
is_success(ex, address, reverted, state_changeset, should_fail, db_error, oc) ==
    LET r == ensure_success(ex, address, reverted, state_changeset, should_fail, db_error, oc)
    IN  [r EXCEPT !.ret = IF r.ret.ok THEN r.ret.val ELSE FALSE]

\* a plausible slip: the snapshot failure carried by the call result is ignored
is_raw_call_success_unchecked(ex, address, state_changeset, call_result, should_fail, db_error, oc) ==
    is_success(ex, address, call_result.reverted, state_changeset, should_fail, db_error, oc)

\* Executor::is_raw_call_success
is_raw_call_success(ex, address, state_changeset, call_result, should_fail, db_error, oc) ==
    IF call_result.has_snapshot_failure
    THEN [ret |-> should_fail, backend |-> None, call |-> None]
    ELSE is_success(ex, address, call_result.reverted, state_changeset, should_fail, db_error, oc)

(***************************************************************************)
(* The Db stores (anvil/src/eth/backend/db.rs).  A store holds what was    *)
(* written locally or fetched; a read that misses fetches from the source  *)
(* behind the store (EmptyDB, or the remote endpoint through the           *)
(* SharedBackend) and keeps the result.                                    *)
(***************************************************************************)
DbAddress == {"X", "Y"}
DbChangeset == [DbAddress -> Option(Account)]

\* what the source behind the store holds
source_basic(st, address) ==
    IF st.source = "EmptyDB" THEN AccountInfoDefault
    ELSE [balance |-> MaxBalance, code |-> TRUE]

source_storage(st, address, index) == IF st.source = "EmptyDB" THEN 0 ELSE 1

\* CacheDB::basic / SharedBackend::basic: get-or-fetch
db_basic(st, address) ==
    IF st.accounts[address] # None
    THEN [st |-> st, ret |-> unwrap(st.accounts[address])]
    ELSE [st |-> [st EXCEPT !.accounts[address] = Some(source_basic(st, address))],
          ret |-> source_basic(st, address)]

\* CacheDB::storage / SharedBackend::storage: get-or-fetch
db_storage(st, address, index) ==
    IF st.storage[address][index] # None
    THEN [st |-> st, ret |-> unwrap(st.storage[address][index])]
    ELSE [st |-> [st EXCEPT !.storage[address][index] =
                        Some(source_storage(st, address, index))],
          ret |-> source_storage(st, address, index)]

\* what a read of every address and slot would return
View(st) ==
    [accounts |-> [a \in DbAddress |-> db_basic(st, a).ret],
     storage |-> [a \in DbAddress |-> [s \in Slot |-> db_storage(st, a, s).ret]]]

\* CacheDB::insert_cache
insert_cache(st, address, account) == [st EXCEPT !.accounts[address] = Some(account)]

\* CacheDB::insert_cache_storage
insert_cache_storage(st, address, slot, val) ==
    [st EXCEPT !.storage[address][slot] = Some(val)]

\* MemDb::do_insert_account
do_insert_account(st, address, account) == [st EXCEPT !.accounts[address] = Some(account)]

\* MemDb::do_commit: the absolute post-call info of every address of the
\* changeset, and every slot with a designated value, overwrite what is stored
do_commit(st, changes) ==
    [st EXCEPT
        !.accounts = [a \in DbAddress |->
            IF changes[a] = None THEN @[a] ELSE Some(unwrap(changes[a]).info)],
        !.storage = [a \in DbAddress |-> [s \in Slot |->
            IF changes[a] = None \/ unwrap(changes[a]).storage[s] = None THEN @[a][s]
            ELSE unwrap(changes[a]).storage[s]]]]

\* a plausible slip: an account that is already cached is not replaced
insert_account_if_absent(st, address, account) ==
    IF st.accounts[address] # None THEN st
    ELSE [st EXCEPT !.accounts[address] = Some(account)]

\* Db::insert_account for CacheDB<ExtDB> and for ForkedDatabase
insert_account(st, address, account) ==
    IF st.kind = "CacheDB" THEN insert_cache(st, address, account)
    ELSE do_insert_account(st, address, account)

\* Db::set_storage_at for CacheDB<ExtDB> and for ForkedDatabase
set_storage_at(st, address, slot, val) ==
    IF st.kind = "CacheDB" THEN insert_cache_storage(st, address, slot, val)
    ELSE [st EXCEPT !.storage[address][slot] = Some(val)]

\* Db::set_balance: read-modify-write through basic and insert_account
Db_set_balance(st, address, balance) ==
    LET r == db_basic(st, address)
    IN  insert_account(r.st, address, [r.ret EXCEPT !.balance = balance])

\* Db::set_code
Db_set_code(st, address, code) ==
    LET r == db_basic(st, address)
    IN  insert_account(r.st, address, [r.ret EXCEPT !.code = code])

\* a plausible slip: the changeset is merged as a delta into what is stored
Db_commit_delta(st, changes) ==
    [st EXCEPT
        !.accounts = [a \in DbAddress |->
            IF changes[a] = None THEN @[a]
            ELSE Some([balance |-> (db_basic(st, a).ret.balance
                                     + unwrap(changes[a]).info.balance) % (MaxBalance + 1),
                       code |-> unwrap(changes[a]).info.code])],
        !.storage = [a \in DbAddress |-> [s \in Slot |->
            IF changes[a] = None \/ unwrap(changes[a]).storage[s] = None THEN @[a][s]
            ELSE unwrap(changes[a]).storage[s]]]]

\* DatabaseCommit::commit for ForkedDatabase (and CacheDB)
Db_commit(st, changes) == do_commit(st, changes)

(***************************************************************************)
(* The fork handle (anvil/src/eth/backend/fork.rs) and the reset of its    *)
(* database (db.rs).  The remote endpoint answers a request with an error  *)
(* or a value; its answers are inputs of the operations.                   *)
(***************************************************************************)
BlockNumber == {0, 1}
Hash == {"h1"}
Bytes == {"b1", "b2"}
CodeKey == {"Y"} \X BlockNumber
Url == {"u0", "u1"}
InvalidUrl == "not a url"

\* ForkedStorage::default
ForkedStorageDefault ==
    [blocks |-> [h \in Hash |-> None],
     hashes |-> [n \in BlockNumber |-> None],
     transactions |-> [h \in Hash |-> None],
     transaction_receipts |-> [h \in Hash |-> None],
     transaction_traces |-> [h \in Hash |-> None],
     block_traces |-> [n \in BlockNumber |-> None],
     code_at |-> [k \in CodeKey |-> None]]

Collections == DOMAIN ForkedStorageDefault

\* a collection holds no entry
IsEmpty(collection) == \A k \in DOMAIN collection : collection[k] = None

\* a plausible slip: clear forgets the code cache
ForkedStorage_clear_keeps_code(storage) ==
    [ForkedStorageDefault EXCEPT !.code_at = storage.code_at]

\* ForkedStorage::clear
ForkedStorage_clear(storage) == ForkedStorageDefault

\* a plausible slip: the block number is stored before the url is looked at
ClientForkConfig_update_block_first(config, url, block_number) ==
    LET c == [config EXCEPT
                 !.block_number = IF block_number # None THEN unwrap(block_number) ELSE @]
    IN  IF url # None /\ unwrap(url) \notin Url
        THEN [config |-> c, ret |-> Err([InvalidUrl |-> unwrap(url)])]
        ELSE [config |-> [c EXCEPT !.provider = IF url # None THEN unwrap(url) ELSE @,
                                   !.eth_rpc_url = IF url # None THEN unwrap(url) ELSE @],
              ret |-> Ok("unit")]

\* ClientForkConfig::update
ClientForkConfig_update(config, url, block_number) ==
    IF url # None /\ unwrap(url) \notin Url
    THEN [config |-> config, ret |-> Err([InvalidUrl |-> unwrap(url)])]
    ELSE [config |->
            [config EXCEPT
                !.provider = IF url # None THEN unwrap(url) ELSE @,
                !.eth_rpc_url = IF url # None THEN unwrap(url) ELSE @,
                !.block_number = IF block_number # None THEN unwrap(block_number) ELSE @],
          ret |-> Ok("unit")]

\* a plausible slip: the overlay is cleared before the block is pinned
ForkedDatabase_reset_clear_first(st, url, block_number, pinned) ==
    LET cleared == [st EXCEPT !.accounts = [a \in DbAddress |-> None],
                              !.storage = [a \in DbAddress |-> [s \in Slot |-> None]]]
    IN  IF block_number # None /\ ~pinned
        THEN [st |-> cleared, ret |-> Err([Internal |-> "set_pinned_block"])]
        ELSE [st |-> [cleared EXCEPT !.pinned = IF block_number # None THEN block_number ELSE @],
              ret |-> Ok("unit")]

\* a plausible slip: the url is applied to the source the database fetches from
ForkedDatabase_reset_applies_url(st, url, block_number, pinned) ==
    IF block_number # None /\ ~pinned
    THEN [st |-> st, ret |-> Err([Internal |-> "set_pinned_block"])]
    ELSE [st |-> [st EXCEPT
                    !.source = IF url # None THEN unwrap(url) ELSE @,
                    !.pinned = IF block_number # None THEN block_number ELSE @,
                    !.accounts = [a \in DbAddress |-> None],
                    !.storage = [a \in DbAddress |-> [s \in Slot |-> None]]],
          ret |-> Ok("unit")]

\* ForkedDatabase::reset; pinned says whether SharedBackend::set_pinned_block succeeds
ForkedDatabase_reset(st, url, block_number, pinned) ==
    IF block_number # None /\ ~pinned
    THEN [st |-> st, ret |-> Err([Internal |-> "set_pinned_block"])]
    ELSE [st |-> [st EXCEPT
                    !.pinned = IF block_number # None THEN block_number ELSE @,
                    !.accounts = [a \in DbAddress |-> None],
                    !.storage = [a \in DbAddress |-> [s \in Slot |-> None]]],
          ret |-> Ok("unit")]

\* ClientFork::clear_cached_storage
clear_cached_storage(f) == [f EXCEPT !.storage = ForkedStorage_clear(@)]

\* ClientFork::reset run by a single caller
ClientFork_reset(f, st, url, block_number, pinned) ==
    LET d == ForkedDatabase_reset(st, url, block_number, pinned)
        c == ClientForkConfig_update(f.config, url, block_number)
    IN  IF ~d.ret.ok THEN [f |-> f, st |-> d.st, ret |-> d.ret]
        ELSE IF ~c.ret.ok THEN [f |-> f, st |-> d.st, ret |-> c.ret]
        ELSE [f |-> clear_cached_storage([f EXCEPT !.config = c.config]),
              st |-> d.st, ret |-> Ok("unit")]

\* ClientFork::provider: the provider held by the config when the call asks
provider(f) == f.config.provider

\* the answers of the endpoint: to a request for a value, for an optional value
Answers(values) == {Err("ProviderError")} \cup {Ok(v) : v \in values}
OptAnswers(values) == {Err("ProviderError"), Ok(None)} \cup {Ok(Some(v)) : v \in values}

\* the block the endpoint knows
RemoteBlock == [hash |-> "h1", number |-> 0]

\* the hash the endpoint's chain has at a block number
RemoteHash(number) == IF number = RemoteBlock.number THEN RemoteBlock.hash ELSE "h2"

\* a plausible slip: the fetched code is returned but not kept
get_code_insert_dropped(storage, address, blocknumber, code) == storage

\* a plausible slip: the insert replaces the code cache by the one new entry
get_code_insert_evicting(storage, address, blocknumber, code) ==
    [storage EXCEPT !.code_at =
        [k \in CodeKey |-> IF k = <<address, blocknumber>> THEN Some(code) ELSE None]]

\* the write half of get_code: storage.code_at.insert((address, blocknumber), code)
get_code_insert(storage, address, blocknumber, code) ==
    [storage EXCEPT !.code_at[<<address, blocknumber>>] = Some(code)]

\* the read half of get_code: storage_read().code_at.get(&(address, blocknumber))
get_code_cached(storage, address, blocknumber) == storage.code_at[<<address, blocknumber>>]

\* a plausible slip: a failed fetch is answered with empty code
get_code_defaulting(f, address, blocknumber, answer) ==
    LET hit == get_code_cached(f.storage, address, blocknumber)
    IN  IF hit # None THEN [f |-> f, ret |-> Ok(unwrap(hit)), fetched |-> FALSE]
        ELSE IF ~answer.ok THEN [f |-> f, ret |-> Ok(""), fetched |-> TRUE]
        ELSE [f |-> [f EXCEPT !.storage =
                        get_code_insert(@, address, blocknumber, answer.val)],
              ret |-> answer, fetched |-> TRUE]

\* A cached read run by a single caller, given the answer the endpoint would
\* give: the storage after it, what it returns, whether the endpoint was asked.
\* ClientFork::get_code
get_code(f, address, blocknumber, answer) ==
    LET hit == get_code_cached(f.storage, address, blocknumber)
    IN  IF hit # None THEN [f |-> f, ret |-> Ok(unwrap(hit)), fetched |-> FALSE]
        ELSE IF ~answer.ok THEN [f |-> f, ret |-> answer, fetched |-> TRUE]
        ELSE [f |-> [f EXCEPT !.storage =
                        get_code_insert(@, address, blocknumber, answer.val)],
              ret |-> answer, fetched |-> TRUE]

\* storage_at, logs, get_balance and get_nonce ask the endpoint on every
\* call and keep nothing.

\* ClientFork::storage_at
storage_at(f, address, index, number, answer) == [f |-> f, ret |-> answer, fetched |-> TRUE]

\* ClientFork::logs
logs(f, filter, answer) == [f |-> f, ret |-> answer, fetched |-> TRUE]

\* ClientFork::get_balance
fork_get_balance(f, address, blocknumber, answer) == [f |-> f, ret |-> answer, fetched |-> TRUE]

\* ClientFork::get_nonce
get_nonce(f, address, blocknumber, answer) == [f |-> f, ret |-> answer, fetched |-> TRUE]

\* a plausible slip: the fetched value is returned but not kept
cached_option_forgetful(f, collection, key, answer) ==
    LET hit == f.storage[collection][key]
    IN  IF hit # None THEN [f |-> f, ret |-> Ok(hit), fetched |-> FALSE]
        ELSE [f |-> f, ret |-> answer, fetched |-> TRUE]

\* get-or-fetch of an optional value kept in one collection under one key
\* (transaction_by_hash, transaction_receipt): only Some is kept
cached_option(f, collection, key, answer) ==
    LET hit == f.storage[collection][key]
    IN  IF hit # None THEN [f |-> f, ret |-> Ok(hit), fetched |-> FALSE]
        ELSE IF ~answer.ok \/ answer.val = None THEN [f |-> f, ret |-> answer, fetched |-> TRUE]
        ELSE [f |-> [f EXCEPT !.storage[collection][key] = answer.val],
              ret |-> answer, fetched |-> TRUE]

\* get-or-fetch of a value kept in one collection under one key
\* (trace_transaction, trace_block)
cached_value(f, collection, key, answer) ==
    LET hit == f.storage[collection][key]
    IN  IF hit # None THEN [f |-> f, ret |-> Ok(unwrap(hit)), fetched |-> FALSE]
        ELSE IF ~answer.ok THEN [f |-> f, ret |-> answer, fetched |-> TRUE]
        ELSE [f |-> [f EXCEPT !.storage[collection][key] = Some(answer.val)],
              ret |-> answer, fetched |-> TRUE]

\* ClientFork::transaction_by_hash
transaction_by_hash(f, hash, answer) == cached_option(f, "transactions", hash, answer)

\* ClientFork::trace_transaction
trace_transaction(f, hash, answer) == cached_value(f, "transaction_traces", hash, answer)

\* ClientFork::trace_block
trace_block(f, number, answer) == cached_value(f, "block_traces", number, answer)

\* ClientFork::transaction_receipt
transaction_receipt(f, hash, answer) == cached_option(f, "transaction_receipts", hash, answer)

\* ClientFork::block_by_hash
block_by_hash(f, hash, answer) ==
    LET hit == f.storage.blocks[hash]
    IN  IF hit # None THEN [f |-> f, ret |-> Ok(hit), fetched |-> FALSE]
        ELSE IF ~answer.ok \/ answer.val = None THEN [f |-> f, ret |-> answer, fetched |-> TRUE]
        ELSE [f |-> [f EXCEPT !.storage.hashes[unwrap(answer.val).number] = Some(hash),
                              !.storage.blocks[hash] = answer.val],
              ret |-> answer, fetched |-> TRUE]

\* ClientFork::block_by_number
block_by_number(f, number, answer) ==
    LET hash == f.storage.hashes[number]
        hit == IF hash = None THEN None ELSE f.storage.blocks[unwrap(hash)]
    IN  IF hit # None THEN [f |-> f, ret |-> Ok(hit), fetched |-> FALSE]
        ELSE IF ~answer.ok \/ answer.val = None THEN [f |-> f, ret |-> answer, fetched |-> TRUE]
        ELSE [f |-> [f EXCEPT !.storage.hashes[number] = Some(unwrap(answer.val).hash),
                              !.storage.blocks[unwrap(answer.val).hash] = answer.val],
              ret |-> answer, fetched |-> TRUE]

(***************************************************************************)
(* The executor as a state machine: one action per operation.  `res` holds *)
(* what the operation returned until the caller takes it.                  *)
(***************************************************************************)
Idle == [op |-> "idle"]

Inspector0 ==
    [cheatcodes |-> Some([broadcastable_transactions |-> 0]), block |-> None, gas_price |-> None]

Executor0 == Executor_new(EmptyBackend, EnvTemplate, Inspector0, 2)

\* the outcomes of the interpreter explored by Spec: every changeset without
\* cheatcode activity, and cheatcode activity without changes
ExecMenu(backend) ==
    [exits |-> {"Return", "Revert"},
     runs |-> {<<c, NoEffect>> : c \in Touches(backend)} \cup
              {<<NoChanges, [broadcast |-> TRUE, snapshot_failure |-> FALSE]>>},
     datas |-> {""},
     created |-> {"Y"}]

Transfers == {t \in [from : UserAddress, to : UserAddress, value : Balance] :
                 t.from # t.to /\ (t.value = 0 => (t.from = CALLER /\ t.to = "Y"))}

Store0(kind, source) ==
    [kind |-> kind, source |-> source,
     pinned |-> IF kind = "ForkedDatabase" THEN Some(0) ELSE None,
     accounts |-> [a \in DbAddress |-> None],
     storage |-> [a \in DbAddress |-> [s \in Slot |-> None]]]

NoOp == [op |-> "none"]

Thread == {"t1", "t2"}
IdleCaller == [op |-> "idle"]
NoCall == [op |-> "none"]
TrackedKey == <<"Y", 0>>

\* ClientFork as created: forked from block 0 of the endpoint u0
Fork0 ==
    [storage |-> ForkedStorageDefault,
     config |-> [eth_rpc_url |-> "u0", block_number |-> RemoteBlock.number,
                 block_hash |-> RemoteHash(RemoteBlock.number),
                 provider |-> "u0", chain_id |-> 1]]

\* nothing has been asked of the tracked code key since the last reset
Hist0 ==
    [poisoned |-> FALSE, fetches |-> "none", first |-> None, unfit |-> FALSE,
     hit |-> FALSE, returned |-> {}, before |-> None]

ExecIdle == executor = Executor0 /\ res = Idle
OtherIdle == backend2 = NoOp /\ node = NoOp /\ pure = NoOp
DbIdle == store = Store0("CacheDB", "EmptyDB") /\ dbop = [op |-> "new", prev |-> NoOp]
ForkIdle ==
    /\ fork = Fork0
    /\ callers = [t \in Thread |-> IdleCaller]
    /\ last = NoCall
    /\ hist = Hist0

InitDb ==
    /\ store \in {Store0("CacheDB", "EmptyDB"), Store0("ForkedDatabase", "remote")}
    /\ dbop = [op |-> "new", prev |-> NoOp]
    /\ ExecIdle
    /\ ForkIdle
    /\ OtherIdle

Init ==
    /\ executor = Executor0
    /\ res = Idle
    /\ DbIdle
    /\ ForkIdle
    /\ OtherIdle

SetBalance(address, amount) ==
    /\ res = Idle
    /\ executor' = set_balance(executor, address, amount)
    /\ res' = [op |-> "set_balance", address |-> address, amount |-> amount]
    /\ UNCHANGED <<otherVars, dbVars, forkVars>>

CallRaw(t, oc) ==
    /\ res = Idle
    /\ LET r == call_raw(executor, t.from, t.to, "", t.value, oc)
       IN  /\ executor' = r.ex
           /\ res' = [op |-> "call_raw", tx |-> t, ret |-> r.ret]
    /\ UNCHANGED <<otherVars, dbVars, forkVars>>

Call(t, oc) ==
    /\ res = Idle
    /\ LET r == call(executor, t.from, t.to, "", t.value, oc)
       IN  /\ executor' = r.ex
           /\ res' = [op |-> "call", tx |-> t, ret |-> r.ret]
    /\ UNCHANGED <<otherVars, dbVars, forkVars>>

CallRawCommitting(t, oc) ==
    /\ res = Idle
    /\ LET r == call_raw_committing(executor, t.from, t.to, "", t.value, oc)
       IN  /\ executor' = r.ex
           /\ res' = [op |-> "call_raw_committing", tx |-> t, ret |-> r.ret, oc |-> oc]
    /\ UNCHANGED <<otherVars, dbVars, forkVars>>

CommitTxWithEnv(env, oc) ==
    /\ res = Idle
    /\ LET r == commit_tx_with_env(executor, env, oc)
       IN  /\ executor' = r.ex
           /\ res' = [op |-> "commit_tx_with_env",
                      tx |-> [from |-> env.tx.caller, to |-> env.tx.transact_to[2],
                              value |-> env.tx.value],
                      ret |-> r.ret, oc |-> oc]
    /\ UNCHANGED <<otherVars, dbVars, forkVars>>

Deploy(from, value, oc) ==
    /\ res = Idle
    /\ LET r == deploy(executor, from, "code", value, oc)
       IN  /\ executor' = r.ex
           /\ res' = [op |-> "deploy_with_env",
                      tx |-> [from |-> from, to |-> "create", value |-> value],
                      ret |-> r.ret, oc |-> oc]
    /\ UNCHANGED <<otherVars, dbVars, forkVars>>

\* the caller takes the returned value
Return ==
    /\ res # Idle
    /\ res' = Idle
    /\ UNCHANGED <<otherVars, executor, dbVars, forkVars>>

CallEnv(t) == build_test_env(executor, t.from, <<"Call", t.to>>, "", t.value)

Next ==
    \/ \E a \in UserAddress, amount \in Balance : SetBalance(a, amount)
    \/ \E t \in Transfers :
         \E oc \in inspect_ref(executor.backend, CallEnv(t), ExecMenu(executor.backend)) : CallRaw(t, oc)
    \/ \E t \in Transfers :
         \E oc \in inspect_ref(executor.backend, CallEnv(t), ExecMenu(executor.backend)) : Call(t, oc)
    \/ \E t \in Transfers :
         \E oc \in inspect_ref(executor.backend, CallEnv(t), ExecMenu(executor.backend)) : CallRawCommitting(t, oc)
    \/ \E t \in Transfers :
         \E oc \in inspect_ref(executor.backend, CallEnv(t), ExecMenu(executor.backend)) :
            CommitTxWithEnv(CallEnv(t), oc)
    \/ \E oc \in inspect_ref(executor.backend,
                             build_test_env(executor, CALLER, <<"Create">>, "code", 0), ExecMenu(executor.backend)) :
         Deploy(CALLER, 0, oc)
    \/ Return

Spec == Init /\ [][Next]_vars

(***************************************************************************)
(* Deployments as a specification: the deployer and creator accounts are   *)
(* set up by set_balance, the bootstrap of the CREATE2 deployer is called  *)
(* once or twice in a row, and contracts are deployed by the default       *)
(* caller.                                                                 *)
(***************************************************************************)
\* the creation of the bootstrap as the interpreter reports it: it creates
\* the deployer address, and writes the deployer's code and the creator's
\* account exactly when it exits with success and reports the address
Create2Menu ==
    [exits |-> {"Return", "Revert"},
     runs |-> {<<NoChanges, NoEffect>>,
               <<[NoChanges EXCEPT
                    ![DEFAULT_CREATE2_DEPLOYER] =
                        Some([info |-> [balance |-> 0, code |-> TRUE], storage |-> NoSlots]),
                    ![creator] =
                        Some([info |-> [balance |-> MaxBalance, code |-> FALSE],
                              storage |-> NoSlots])],
                 NoEffect>>},
     datas |-> {""},
     created |-> {DEFAULT_CREATE2_DEPLOYER}]

Create2Outcomes(ex) ==
    LET funded == set_balance(ex, creator, MaxBalance)
        env == build_test_env(funded, creator, <<"Create">>, DEFAULT_CREATE2_DEPLOYER_CODE, 0)
    IN  {oc \in inspect_ref(funded.backend, env, Create2Menu) :
            \/ oc.err
            \/ (return_ok(oc.exit_reason)
                   /\ oc.out = Some(<<"Create", "", Some(DEFAULT_CREATE2_DEPLOYER)>>))
                <=> oc.state # NoChanges}

\* the bootstrap called on an idle executor, or a second time right after
\* the first call returned; initial_balance and empty are the creator's
\* balance and whether the deployer account was there without code, before
\* the first call
DeployCreate2Deployer(oc) ==
    /\ res.op \in {"idle", "deploy_create2_deployer"}
    /\ res.op = "deploy_create2_deployer" => ~res.again
    /\ LET r == deploy_create2_deployer(executor, oc)
           account == basic_ref(executor.backend, DEFAULT_CREATE2_DEPLOYER)
       IN  /\ executor' = r.ex
           /\ res' = [op |-> "deploy_create2_deployer", ret |-> r.ret,
                      deployed |-> r.deployed, again |-> res # Idle,
                      initial_balance |-> IF res = Idle THEN get_balance(executor, creator)
                                          ELSE res.initial_balance,
                      empty |-> IF res = Idle THEN account # None /\ ~unwrap(account).code
                                ELSE res.empty]
    /\ UNCHANGED <<otherVars, dbVars, forkVars>>

NextCreate2 ==
    \/ \E a \in {DEFAULT_CREATE2_DEPLOYER, creator}, amount \in Balance : SetBalance(a, amount)
    \/ \E oc \in Create2Outcomes(executor) : DeployCreate2Deployer(oc)
    \/ \E oc \in inspect_ref(executor.backend,
                             build_test_env(executor, CALLER, <<"Create">>, "code", 0), ExecMenu(executor.backend)) :
         Deploy(CALLER, 0, oc)
    \/ Return

SpecCreate2 == Init /\ [][NextCreate2]_vars

(***************************************************************************)
(* Backend2 (evm/src/executor/backend/mod.rs): the composed backend with   *)
(* its forks, its database and its snapshots.  new, insert_snapshot,       *)
(* revert_snapshot and select_fork are todo!() in the source: a call       *)
(* panics before it reads or writes anything, and the caller does not get  *)
(* a value back.                                                           *)
(***************************************************************************)
ForkId == 1 .. MaxForks
SnapshotId == 0 .. 1

\* todo!(): the call panics with "not yet implemented"
Panic == [ok |-> FALSE, panic |-> "not yet implemented"]

\* a Backend2 with an in-memory database, no fork and no snapshot
Backend2_0 ==
    [forks |-> {}, db |-> [a \in DbAddress |-> None], snapshots |-> <<>>,
     op |-> "idle"]

\* Backend2::new
Backend2_new(b, fork_) == [b |-> b, ret |-> Panic]

\* Backend2::insert_snapshot
insert_snapshot(b) == [b |-> b, ret |-> Panic]

\* Backend2::revert_snapshot
revert_snapshot(b, id) == [b |-> b, ret |-> Panic]

\* Backend2::create_fork: MultiFork::create_fork registers the fork under a
\* new id, or fails when the fork cannot be set up
create_fork(b, created) ==
    IF ~created THEN [b |-> b, ret |-> Err("create_fork")]
    ELSE LET id == Cardinality(b.forks) + 1
         IN  [b |-> [b EXCEPT !.forks = @ \cup {id}], ret |-> Ok(id)]

\* Backend2::select_fork
select_fork(b, id) == [b |-> b, ret |-> Panic]

\* a write to the database of the backend (the pub field db)
Backend2Write(address, balance) ==
    /\ backend2.op = "idle"
    /\ backend2' = [backend2 EXCEPT !.db[address] = Some(balance), !.op = "write"]
    /\ UNCHANGED <<execVars, dbVars, forkVars, node, pure>>

\* a call on the backend: what it leaves of the backend and what it returns
Backend2Call(op, id, r) ==
    /\ backend2.op = "idle"
    /\ backend2' = [forks |-> r.b.forks, db |-> r.b.db, snapshots |-> r.b.snapshots,
                    op |-> op, id |-> id, ret |-> r.ret]
    /\ UNCHANGED <<execVars, dbVars, forkVars, node, pure>>

Backend2New == Backend2Call("new", None, Backend2_new(backend2, None))
InsertSnapshot == Backend2Call("insert_snapshot", None, insert_snapshot(backend2))
RevertSnapshot(id) == Backend2Call("revert_snapshot", Some(id), revert_snapshot(backend2, id))
SelectFork(id) == Backend2Call("select_fork", Some(id), select_fork(backend2, id))
CreateFork(created) ==
    /\ Cardinality(backend2.forks) < MaxForks
    /\ Backend2Call("create_fork", None, create_fork(backend2, created))

\* the caller takes what the call returned; after a panic there is no caller
Backend2Return ==
    /\ backend2.op \notin {"idle", "write"} => "panic" \notin DOMAIN backend2.ret
    /\ backend2.op # "idle"
    /\ backend2' = [forks |-> backend2.forks, db |-> backend2.db,
                    snapshots |-> backend2.snapshots, op |-> "idle"]
    /\ UNCHANGED <<execVars, dbVars, forkVars, node, pure>>

InitBackend2 ==
    /\ backend2 = Backend2_0
    /\ node = NoOp
    /\ pure = NoOp
    /\ ExecIdle
    /\ DbIdle
    /\ ForkIdle

NextBackend2 ==
    \/ \E a \in DbAddress, b \in Balance : Backend2Write(a, b)
    \/ Backend2New
    \/ InsertSnapshot
    \/ \E id \in SnapshotId : RevertSnapshot(id)
    \/ \E created \in BOOLEAN : CreateFork(created)
    \/ \E id \in ForkId : SelectFork(id)
    \/ Backend2Return

SpecBackend2 == InitBackend2 /\ [][NextBackend2]_vars

(***************************************************************************)
(* Test function names (TestFunctionExt for &str).  A name is a sequence   *)
(* of characters; "e_acute" stands for a character of two bytes, every     *)
(* other character takes one byte.                                         *)
(***************************************************************************)
utf8_len(c) == IF c = "e_acute" THEN 2 ELSE 1

\* str::len: the length in bytes
RECURSIVE str_len(_)
str_len(name) == IF name = <<>> THEN 0 ELSE utf8_len(Head(name)) + str_len(Tail(name))

\* str::starts_with
starts_with(name, pat) == Len(name) >= Len(pat) /\ SubSeq(name, 1, Len(pat)) = pat

\* &name[n..]: the rest after n bytes; slicing inside a character panics
RECURSIVE str_from(_, _)
str_from(name, n) ==
    IF n = 0 THEN name
    ELSE IF name = <<>> \/ utf8_len(Head(name)) > n THEN <<"panic">>
    ELSE str_from(Tail(name), n - utf8_len(Head(name)))

\* a plausible slip: only the lower-case spelling is looked for
is_test_skipped_lowercase(name) ==
    IF str_len(name) > 4 /\ starts_with(name, <<"s", "k", "i", "p">>)
    THEN starts_with(str_from(name, 4), <<"t", "e", "s", "t">>)
    ELSE FALSE

\* <&str as TestFunctionExt>::is_test_skipped
is_test_skipped(name) ==
    IF str_len(name) > 4 /\ starts_with(name, <<"s", "k", "i", "p">>)
    THEN LET rem == str_from(name, 4)
         IN  starts_with(rem, <<"t", "e", "s", "t">>) \/ starts_with(rem, <<"T", "e", "s", "t">>)
    ELSE FALSE

\* the characters tried at each position of a name: those of "skiptest" and
\* "skipTest", and others in their place
NameChars(i) ==
    CASE i = 1 -> {"s", "t"}
      [] i = 2 -> {"k", "e"}
      [] i = 3 -> {"i", "e_acute"}
      [] i = 4 -> {"p", "e_acute"}
      [] i = 5 -> {"t", "T", "F"}
      [] i = 6 -> {"e", "t"}
      [] i = 7 -> {"s", "e"}
      [] i = 8 -> {"t", "s"}
      [] OTHER -> {"A"}

\* the names of n characters
RECURSIVE NamesOfLen(_)
NamesOfLen(n) ==
    IF n = 0 THEN {<<>>}
    ELSE {Append(name, c) : name \in NamesOfLen(n - 1), c \in NameChars(n)}

Names == UNION {NamesOfLen(n) : n \in 0 .. MaxName}

(***************************************************************************)
(* The free functions as a specification: the arguments are drawn in the   *)
(* initial state, one step applies the function.                           *)
(***************************************************************************)
\* the raw call results convert_executed_result makes of the outcomes of a
\* call: every exit status, with returned data that is empty, a bool, or the
\* skip value
ConvertMenu ==
    [exits |-> {"Return", "Stop", "Revert", "OutOfGas"},
     runs |-> {<<NoChanges, NoEffect>>,
               <<Touch("Y", AccountInfoDefault, [s \in Slot |-> Some(1)]), NoEffect>>},
     datas |-> {"", "true", MAGIC_SKIP},
     created |-> {}]

RawCallResults ==
    LET env == build_test_env(Executor0, CALLER, <<"Call", "Y">>, "", 0)
    IN  {convert_executed_result(env, Executor0.inspector, oc, FALSE).val :
            oc \in inspect_ref(Executor0.backend, env, ConvertMenu) \ {ExecErr}}

InitPure ==
    /\ pure \in [op : {"args"}, f : {"calc_stipend"}, calldata : Calldata, spec : SpecId]
                \cup [op : {"args"}, f : {"convert_call_result"},
                      func : {"failed()(bool)", "setUp()"}, call_result : RawCallResults]
                \cup [op : {"args"}, f : {"is_test_skipped"}, name : Names]
    /\ backend2 = NoOp
    /\ node = NoOp
    /\ ExecIdle
    /\ DbIdle
    /\ ForkIdle

CalcStipend ==
    /\ pure.op = "args"
    /\ pure.f = "calc_stipend"
    /\ pure' = [op |-> "calc_stipend", calldata |-> pure.calldata, spec |-> pure.spec,
                ret |-> calc_stipend(pure.calldata, pure.spec)]
    /\ UNCHANGED <<execVars, dbVars, forkVars, backend2, node>>

ConvertCallResult ==
    /\ pure.op = "args"
    /\ pure.f = "convert_call_result"
    /\ pure' = [op |-> "convert_call_result", func |-> pure.func,
                call_result |-> pure.call_result,
                ret |-> convert_call_result(pure.func, pure.call_result)]
    /\ UNCHANGED <<execVars, dbVars, forkVars, backend2, node>>

IsTestSkipped ==
    /\ pure.op = "args"
    /\ pure.f = "is_test_skipped"
    /\ pure' = [op |-> "is_test_skipped", name |-> pure.name,
                ret |-> is_test_skipped(pure.name)]
    /\ UNCHANGED <<execVars, dbVars, forkVars, backend2, node>>

NextPure == CalcStipend \/ ConvertCallResult \/ IsTestSkipped

SpecPure == InitPure /\ [][NextPure]_vars

(***************************************************************************)
(* The anvil node process: NodeArgs::run spawns the node, installs the     *)
(* Ctrl-C handler and waits on the node's handle.  The handler runs on the *)
(* signal thread while the node keeps serving requests.                    *)
(***************************************************************************)
CacheKey == {"k1", "k2", "k3"}

\* what api.get_fork() holds after spawn: None without a fork url; caching
\* tells whether a cache file is configured for the fork's database
NodeForks == {None} \cup {Some([caching |-> c, cache |-> {}]) : c \in BOOLEAN}

Node0(f) ==
    [pc |-> "spawned", fork |-> f, flush |-> "none", disk |-> {},
     warned |-> FALSE, served |-> 0]

\* the cache's flush: writes the cached entries to the cache file when one is
\* configured; a failed write is logged, nothing is returned either way
flush(f, disk, written) ==
    IF ~f.caching THEN [disk |-> disk, warned |-> FALSE]
    ELSE IF written THEN [disk |-> f.cache, warned |-> FALSE]
    ELSE [disk |-> disk, warned |-> TRUE]

\* ForkedDatabase::flush_cache returns (): the handler goes on to its next
\* statement whatever the flush did
flush_cache(n, written) ==
    LET r == flush(unwrap(n.fork), n.disk, written)
    IN  [n EXCEPT !.pc = "exiting", !.flush = "returned",
                  !.disk = r.disk, !.warned = r.warned]

\* the handler with the two statements in the other order
handler_exit_first(n) ==
    [n EXCEPT !.pc = "exiting"]

\* the closure given to ctrlc::set_handler, up to its call of flush_cache or,
\* without a fork, up to std::process::exit
handler(n) ==
    IF n.fork # None
    THEN [n EXCEPT !.pc = "flushing", !.flush = "invoked"]
    ELSE [n EXCEPT !.pc = "exiting"]

NodeAlive == node.pc \in {"spawned", "serving", "signalled", "flushing", "exiting"}

\* ctrlc::set_handler(..).expect(..): run panics when the handler cannot be
\* installed
SetHandler(installed) ==
    /\ node.pc = "spawned"
    /\ node' = [node EXCEPT !.pc = IF installed THEN "serving" ELSE "panicked"]
    /\ UNCHANGED <<execVars, dbVars, forkVars, backend2, pure>>

\* the spawned node serves a request; with a fork the fetched entry is cached
Request(key) ==
    /\ NodeAlive
    /\ node.served < MaxRequests
    /\ node' = [node EXCEPT
                  !.served = @ + 1,
                  !.fork = IF @ = None THEN None
                           ELSE Some([unwrap(@) EXCEPT !.cache = @ \cup {key}])]
    /\ UNCHANGED <<execVars, dbVars, forkVars, backend2, pure>>

\* the shutdown signal reaches the installed handler
Signal ==
    /\ node.pc = "serving"
    /\ node' = [node EXCEPT !.pc = "signalled"]
    /\ UNCHANGED <<execVars, dbVars, forkVars, backend2, pure>>

Handler ==
    /\ node.pc = "signalled"
    /\ node' = handler(node)
    /\ UNCHANGED <<execVars, dbVars, forkVars, backend2, pure>>

FlushCache(written) ==
    /\ node.pc = "flushing"
    /\ node' = flush_cache(node, written)
    /\ UNCHANGED <<execVars, dbVars, forkVars, backend2, pure>>

\* std::process::exit(0)
Exit ==
    /\ node.pc = "exiting"
    /\ node' = [node EXCEPT !.pc = "exited"]
    /\ UNCHANGED <<execVars, dbVars, forkVars, backend2, pure>>

InitNode ==
    /\ node \in {Node0(f) : f \in NodeForks}
    /\ backend2 = NoOp
    /\ pure = NoOp
    /\ ExecIdle
    /\ DbIdle
    /\ ForkIdle

NextNode ==
    \/ \E installed \in BOOLEAN : SetHandler(installed)
    \/ \E key \in CacheKey : Request(key)
    \/ Signal
    \/ Handler
    \/ \E written \in BOOLEAN : FlushCache(written)
    \/ Exit

SpecNode == InitNode /\ [][NextNode]_vars

\* the signal thread is an operating-system thread of its own: it is scheduled
\* whatever the node's tasks do, and the flush is a write of a local file
FairSpecNode ==
    /\ SpecNode
    /\ WF_vars(Handler)
    /\ WF_vars(\E written \in BOOLEAN : FlushCache(written))
    /\ WF_vars(Exit)

(***************************************************************************)
(* Success evaluation as a specification: the executor is any of the       *)
(* executors a test run leaves behind, the inputs are drawn per call.      *)
(***************************************************************************)
SuccessExecutors ==
    {[Executor0 EXCEPT !.backend.accounts["Y"] = y,
                       !.backend.storage["Y"]["failed"] = v,
                       !.backend.has_snapshot_failure = f] :
        y \in {None, Some([balance |-> 0, code |-> TRUE])}, v \in StorageValue, f \in BOOLEAN}

InitSuccess ==
    /\ executor \in SuccessExecutors
    /\ res = Idle
    /\ DbIdle
    /\ ForkIdle
    /\ OtherIdle

\* the probe outcomes ensure_success can meet for these arguments
ProbeOutcomes(ex, address, reverted, state_changeset, skipped) ==
    IF skipped \/ reverted \/ ex.backend.has_snapshot_failure THEN {ExecErr}
    ELSE LET backend == Executor_new(MinimalBackend(ex, address, state_changeset),
                                     ex.env, ex.inspector, ex.gas_limit).backend
         IN  inspect_ref(backend,
                         build_test_env(ex, CALLER, <<"Call", address>>, "failed()(bool)", 0),
                         ProbeMenu(backend, address))

SuccessCall(op, address, reverted, state_changeset, should_fail, db_error, r) ==
    [op |-> op, address |-> address, reverted |-> reverted, call_result |-> None,
     state_changeset |-> state_changeset, should_fail |-> should_fail,
     db_error |-> db_error, ret |-> r.ret, backend |-> r.backend, call |-> r.call]

EnsureSuccess(address, reverted, state_changeset, should_fail, db_error, oc) ==
    /\ res = Idle
    /\ res' = SuccessCall("ensure_success", address, reverted, state_changeset, should_fail,
                  db_error,
                  ensure_success(executor, address, reverted, state_changeset, should_fail,
                                 db_error, oc))
    /\ UNCHANGED <<otherVars, executor, dbVars, forkVars>>

IsSuccess(address, reverted, state_changeset, should_fail, db_error, oc) ==
    /\ res = Idle
    /\ res' = SuccessCall("is_success", address, reverted, state_changeset, should_fail,
                  db_error,
                  is_success(executor, address, reverted, state_changeset, should_fail,
                             db_error, oc))
    /\ UNCHANGED <<otherVars, executor, dbVars, forkVars>>

IsRawCallSuccess(address, state_changeset, call_result, should_fail, db_error, oc) ==
    /\ res = Idle
    /\ res' = [SuccessCall("is_raw_call_success", address, call_result.reverted,
                   state_changeset, should_fail, db_error,
                   is_raw_call_success(executor, address, state_changeset, call_result,
                                       should_fail, db_error, oc))
               EXCEPT !.call_result = Some(call_result)]
    /\ UNCHANGED <<otherVars, executor, dbVars, forkVars>>

\* Executor::new on a backend, with the env, inspector and gas limit at hand
ExecutorNew(backend) ==
    /\ res = Idle
    /\ executor' = Executor_new(backend, executor.env, executor.inspector, executor.gas_limit)
    /\ res' = [op |-> "new", backend |-> backend]
    /\ UNCHANGED <<otherVars, dbVars, forkVars>>

NextSuccess ==
    \/ \E c \in {None, Some([balance |-> MaxBalance, code |-> FALSE]),
                  Some([balance |-> 0, code |-> TRUE])} :
         ExecutorNew([executor.backend EXCEPT !.accounts[CHEATCODE_ADDRESS] = c])
    \/ \E reverted, should_fail, db_error \in BOOLEAN, cs \in Touches(executor.backend) :
         \E oc \in ProbeOutcomes(executor, "Y", reverted, cs, db_error) :
            EnsureSuccess("Y", reverted, cs, should_fail, db_error, oc)
    \/ \E reverted, should_fail, db_error \in BOOLEAN, cs \in Touches(executor.backend) :
         \E oc \in ProbeOutcomes(executor, "Y", reverted, cs, db_error) :
            IsSuccess("Y", reverted, cs, should_fail, db_error, oc)
    \/ \E reverted, snap, should_fail, db_error \in BOOLEAN, cs \in Touches(executor.backend) :
         \E oc \in ProbeOutcomes(executor, "Y", reverted, cs, db_error \/ snap) :
            IsRawCallSuccess("Y", cs, [reverted |-> reverted, has_snapshot_failure |-> snap],
                             should_fail, db_error, oc)
    \/ Return

SpecSuccess == InitSuccess /\ [][NextSuccess]_vars

(***************************************************************************)
(* The environment of calls as a specification: the gas limit override is  *)
(* changed between calls, and the test contract is set up, called and      *)
(* deployed with and without commit.                                       *)
(***************************************************************************)
GasLimit == 1 .. MaxGas

\* Executor::set_gas_limit
set_gas_limit(ex, gas_limit) == [ex EXCEPT !.gas_limit = gas_limit]

\* Executor::call_committing
call_committing(ex, from, to, func, value, oc) ==
    LET r == call_raw_committing(ex, from, to, func, value, oc)
    IN  IF ~r.ret.ok THEN r
        ELSE [ex |-> r.ex, ret |-> convert_call_result(func, r.ret.val)]

\* Executor::setup, after call_committing returned res: the block and the
\* chain id of the returned environment are recorded in self.env
setup_record(ex, result) ==
    [ex EXCEPT !.env.block = result.env.block,
               !.env.cfg.chain_id = result.env.cfg.chain_id]

\* a plausible slip: a setup whose success evaluation fails leaves the
\* executor as it was before the call
setup_rolled_back(ex, from, to, oc, db_error, probe) ==
    LET r == call_committing(ex, unwrap_or(from, CALLER), to, "setUp()", 0, oc)
    IN  IF ~r.ret.ok THEN r
        ELSE LET result == r.ret.val
                 recorded == setup_record(r.ex, result)
             IN  IF result.state_changeset = None
                 THEN [ex |-> recorded, ret |-> Ok(result)]
                 ELSE LET success ==
                              ensure_success(recorded, to, result.reverted,
                                             unwrap(result.state_changeset), FALSE,
                                             db_error, probe).ret
                      IN  IF ~success.ok
                          THEN [ex |-> recorded, ret |-> Err([kind |-> "Eyre"])]
                          ELSE IF success.val
                          THEN [ex |-> recorded, ret |-> Ok(result)]
                          ELSE [ex |-> ex,
                                ret |-> Err([kind |-> "Execution",
                                             reverted |-> result.reverted,
                                             reason |-> "execution error",
                                             transactions |-> None,
                                             state_changeset |-> None])]

\* Executor::setup; set_test_contract and set_caller record the two addresses
\* on the backend, which accounts and environment do not depend on
setup(ex, from, to, oc, db_error, probe) ==
    LET r == call_committing(ex, unwrap_or(from, CALLER), to, "setUp()", 0, oc)
    IN  IF ~r.ret.ok THEN r
        ELSE LET result == r.ret.val
                 recorded == setup_record(r.ex, result)
             IN  IF result.state_changeset = None
                 THEN [ex |-> recorded, ret |-> Ok(result)]
                 ELSE LET success ==
                              ensure_success(recorded, to, result.reverted,
                                             unwrap(result.state_changeset), FALSE,
                                             db_error, probe).ret
                      IN  IF ~success.ok
                          THEN [ex |-> recorded, ret |-> Err([kind |-> "Eyre"])]
                          ELSE IF success.val
                          THEN [ex |-> recorded, ret |-> Ok(result)]
                          ELSE [ex |-> recorded,
                                ret |-> Err([kind |-> "Execution",
                                             reverted |-> result.reverted,
                                             reason |-> "execution error",
                                             transactions |-> None,
                                             state_changeset |-> None])]

\* the outcomes of the interpreter explored here: a run that writes the test
\* contract's `failed` variable or nothing, and returns or reverts
EnvMenu ==
    [exits |-> {"Return", "Revert"},
     runs |-> {<<NoChanges, NoEffect>>,
               <<Touch("Y", [balance |-> 0, code |-> TRUE],
                       [s \in Slot |-> IF s = "failed" THEN Some(1) ELSE None]), NoEffect>>},
     datas |-> {""},
     created |-> {"Y"}]

TestCall == [from |-> CALLER, to |-> "Y", value |-> 0]

EnvOutcomes(ex, transact_to) ==
    inspect_ref(ex.backend, build_test_env(ex, CALLER, transact_to, "", 0), EnvMenu)

\* the outcomes of the failed()(bool) probe that setup issues after outcome oc
SetupProbes(ex, to, oc, db_error) ==
    LET r == call_committing(ex, CALLER, to, "setUp()", 0, oc)
    IN  IF ~r.ret.ok \/ r.ret.val.state_changeset = None THEN {ExecErr}
        ELSE ProbeOutcomes(setup_record(r.ex, r.ret.val), to, r.ret.val.reverted,
                           unwrap(r.ret.val.state_changeset), db_error)

SetGasLimit(gas_limit) ==
    /\ res = Idle
    /\ executor' = set_gas_limit(executor, gas_limit)
    /\ res' = [op |-> "set_gas_limit", gas_limit |-> gas_limit]
    /\ UNCHANGED <<otherVars, dbVars, forkVars>>

CallCommitting(t, oc) ==
    /\ res = Idle
    /\ LET r == call_committing(executor, t.from, t.to, "", t.value, oc)
       IN  /\ executor' = r.ex
           /\ res' = [op |-> "call_committing", tx |-> t, ret |-> r.ret, oc |-> oc]
    /\ UNCHANGED <<otherVars, dbVars, forkVars>>

Setup(from, to, oc, db_error, probe) ==
    /\ res = Idle
    /\ LET r == setup(executor, from, to, oc, db_error, probe)
       IN  /\ executor' = r.ex
           /\ res' = [op |-> "setup",
                      tx |-> [from |-> unwrap_or(from, CALLER), to |-> to, value |-> 0],
                      ret |-> r.ret, oc |-> oc]
    /\ UNCHANGED <<otherVars, dbVars, forkVars>>

NextEnv ==
    \/ \E gas_limit \in GasLimit : SetGasLimit(gas_limit)
    \/ \E oc \in EnvOutcomes(executor, <<"Call", "Y">>) : CallRaw(TestCall, oc)
    \/ \E oc \in EnvOutcomes(executor, <<"Call", "Y">>) : Call(TestCall, oc)
    \/ \E oc \in EnvOutcomes(executor, <<"Call", "Y">>) : CallRawCommitting(TestCall, oc)
    \/ \E oc \in EnvOutcomes(executor, <<"Call", "Y">>) : CallCommitting(TestCall, oc)
    \/ \E oc \in EnvOutcomes(executor, <<"Call", "Y">>), db_error \in BOOLEAN :
         \E probe \in SetupProbes(executor, "Y", oc, db_error) :
            Setup(None, "Y", oc, db_error, probe)
    \/ \E oc \in EnvOutcomes(executor, <<"Create">>) : Deploy(CALLER, 0, oc)
    \/ Return

SpecEnv == Init /\ [][NextEnv]_vars

(***************************************************************************)
(* The Db store as a state machine.  dbop.prev is the operation before the *)
(* last one when that was a write, with the value it replaced.             *)
(***************************************************************************)
\* the changesets explored: Y alone written, or X and Y with the same entry
DbChanges == {c \in DbChangeset : c["X"] = None \/ c["X"] = c["Y"]}

\* a write as the next operation remembers it
AsPrev(op) == IF op.op \in {"insert_account", "set_storage_at", "commit"}
              THEN [op EXCEPT !.prev = NoOp] ELSE NoOp

DbBasic(address) ==
    LET r == db_basic(store, address)
    IN  /\ store' = r.st
        /\ UNCHANGED <<otherVars, execVars, forkVars>>
        /\ dbop' = [op |-> "basic", address |-> address, ret |-> r.ret, prev |-> AsPrev(dbop)]

DbStorage(address, index) ==
    LET r == db_storage(store, address, index)
    IN  /\ store' = r.st
        /\ UNCHANGED <<otherVars, execVars, forkVars>>
        /\ dbop' = [op |-> "storage", address |-> address, index |-> index, ret |-> r.ret,
                    prev |-> AsPrev(dbop)]

DbInsertAccount(address, account) ==
    /\ UNCHANGED <<otherVars, execVars, forkVars>>
    /\ store' = insert_account(store, address, account)
    /\ dbop' = [op |-> "insert_account", address |-> address, account |-> account,
                replaced |-> store.accounts[address], prev |-> NoOp]

DbSetStorageAt(address, slot, val) ==
    /\ UNCHANGED <<otherVars, execVars, forkVars>>
    /\ store' = set_storage_at(store, address, slot, val)
    /\ dbop' = [op |-> "set_storage_at", address |-> address, slot |-> slot, val |-> val,
                replaced |-> store.storage[address][slot], prev |-> NoOp]

DbSetBalance(address, balance) ==
    /\ UNCHANGED <<otherVars, execVars, forkVars>>
    /\ store' = Db_set_balance(store, address, balance)
    /\ dbop' = [op |-> "set_balance", address |-> address, prev |-> NoOp]

DbSetCode(address, code) ==
    /\ UNCHANGED <<otherVars, execVars, forkVars>>
    /\ store' = Db_set_code(store, address, code)
    /\ dbop' = [op |-> "set_code", address |-> address, prev |-> NoOp]

DbCommit(changes) ==
    /\ UNCHANGED <<otherVars, execVars, forkVars>>
    /\ store' = Db_commit(store, changes)
    /\ dbop' = [op |-> "commit", changes |-> changes,
                repeated |-> dbop.op = "commit" /\ dbop.changes = changes, prev |-> NoOp]

NextDb ==
    \/ \E a \in DbAddress : DbBasic(a)
    \/ \E a \in DbAddress, s \in Slot : DbStorage(a, s)
    \/ \E a \in DbAddress, v \in AccountInfo : DbInsertAccount(a, v)
    \/ \E a \in DbAddress, s \in Slot, x \in StorageValue : DbSetStorageAt(a, s, x)
    \/ \E a \in DbAddress, b \in Balance : DbSetBalance(a, b)
    \/ \E a \in DbAddress, c \in BOOLEAN : DbSetCode(a, c)
    \/ \E c \in DbChanges : DbCommit(c)

SpecDb == InitDb /\ [][NextDb]_vars

(***************************************************************************)
(* The fork handle used by one caller: every call runs to its return.      *)
(* `last` holds what the call returned until the caller takes it.          *)
(***************************************************************************)
ForkDatabase0 == Store0("ForkedDatabase", "remote")

InitFork ==
    /\ fork = Fork0
    /\ store = ForkDatabase0
    /\ dbop = [op |-> "new", prev |-> NoOp]
    /\ callers = [t \in Thread |-> IdleCaller]
    /\ last = NoCall
    /\ hist = Hist0
    /\ ExecIdle
    /\ OtherIdle

\* the overlay of the database holds something
Dirty(st) ==
    \E a \in DbAddress : st.accounts[a] # None \/ \E s \in Slot : st.storage[a][s] # None

\* a cached read returns
Read(op, key, r, answer) ==
    /\ last = NoCall
    /\ fork' = r.f
    /\ last' = [op |-> op, key |-> key, ret |-> r.ret, fetched |-> r.fetched,
                answer |-> IF r.fetched THEN Some(answer) ELSE None,
                provider |-> IF r.fetched THEN Some(provider(fork)) ELSE None]
    /\ UNCHANGED <<otherVars, execVars, dbVars, callers, hist>>

GetCode(address, blocknumber, answer) ==
    Read("get_code", <<address, blocknumber>>, get_code(fork, address, blocknumber, answer), answer)

TransactionByHash(hash, answer) ==
    Read("transaction_by_hash", hash, transaction_by_hash(fork, hash, answer), answer)

TraceTransaction(hash, answer) ==
    Read("trace_transaction", hash, trace_transaction(fork, hash, answer), answer)

TraceBlock(number, answer) == Read("trace_block", number, trace_block(fork, number, answer), answer)

TransactionReceipt(hash, answer) ==
    Read("transaction_receipt", hash, transaction_receipt(fork, hash, answer), answer)

BlockByHash(hash, answer) == Read("block_by_hash", hash, block_by_hash(fork, hash, answer), answer)

BlockByNumber(number, answer) == Read("block_by_number", number, block_by_number(fork, number, answer), answer)

StorageAt(address, index, number, answer) ==
    Read("storage_at", <<address, index, number>>, storage_at(fork, address, index, number, answer), answer)

Logs(filter, answer) == Read("logs", filter, logs(fork, filter, answer), answer)

GetBalance(address, blocknumber, answer) ==
    Read("get_balance", <<address, blocknumber>>, fork_get_balance(fork, address, blocknumber, answer), answer)

GetNonce(address, blocknumber, answer) ==
    Read("get_nonce", <<address, blocknumber>>, get_nonce(fork, address, blocknumber, answer), answer)

\* self.config.write().update(url, block_number) on the handle's config
ConfigUpdate(url, number) ==
    /\ last = NoCall
    /\ LET c == ClientForkConfig_update(fork.config, url, number)
       IN  /\ fork' = [fork EXCEPT !.config = c.config]
           /\ last' = [op |-> "update", url |-> url, block_number |-> number, ret |-> c.ret]
    /\ UNCHANGED <<otherVars, execVars, dbVars, callers, hist>>

\* a write to the fork's database through Db::set_balance
DatabaseSetBalance(address, balance) ==
    /\ last = NoCall
    /\ store' = Db_set_balance(store, address, balance)
    /\ last' = [op |-> "set_balance"]
    /\ UNCHANGED <<otherVars, execVars, dbop, fork, callers, hist>>

\* a read of the fork's database through Database::basic: a miss is fetched
\* from the source behind the database, the SharedBackend the node was
\* started with
DatabaseBasic(address) ==
    /\ last = NoCall
    /\ LET r == db_basic(store, address)
       IN  /\ store' = r.st
           /\ last' = [op |-> "basic", key |-> address, ret |-> r.ret,
                       fetched |-> store.accounts[address] = None,
                       source |-> store.source]
    /\ UNCHANGED <<otherVars, execVars, dbop, fork, callers, hist>>

Reset(url, number, pinned) ==
    /\ last = NoCall
    /\ LET r == ClientFork_reset(fork, store, url, number, pinned)
       IN  /\ fork' = r.f
           /\ store' = r.st
           /\ last' = [op |-> "reset", url |-> url, block_number |-> number, ret |-> r.ret,
                       pinned |-> number = None \/ pinned,
                       before |-> [cached |-> {c \in Collections : ~IsEmpty(fork.storage[c])},
                                   dirty |-> Dirty(store),
                                   block_number |-> fork.config.block_number]]
    /\ UNCHANGED <<otherVars, execVars, dbop, callers, hist>>

ClearCachedStorage ==
    /\ last = NoCall
    /\ fork' = clear_cached_storage(fork)
    /\ last' = [op |-> "clear_cached_storage"]
    /\ UNCHANGED <<otherVars, execVars, dbVars, callers, hist>>

\* the caller takes the returned value
ForkReturn ==
    /\ last # NoCall
    /\ last' = NoCall
    /\ UNCHANGED <<otherVars, execVars, dbVars, fork, callers, hist>>

NextForkSeq ==
    \/ \E k \in CodeKey, answer \in Answers(Bytes) : GetCode(k[1], k[2], answer)
    \/ \E h \in Hash, answer \in OptAnswers({"tx"}) : TransactionByHash(h, answer)
    \/ \E h \in Hash, answer \in Answers({"traces"}) : TraceTransaction(h, answer)
    \/ \E answer \in Answers({"traces"}) : TraceBlock(RemoteBlock.number, answer)
    \/ \E h \in Hash, answer \in OptAnswers({"receipt"}) : TransactionReceipt(h, answer)
    \/ \E h \in Hash, answer \in OptAnswers({RemoteBlock}) : BlockByHash(h, answer)
    \/ \E answer \in OptAnswers({RemoteBlock}) : BlockByNumber(RemoteBlock.number, answer)
    \/ \E n \in BlockNumber : BlockByNumber(n, Ok(None))
    \/ \E answer \in Answers({"word"}) : StorageAt("Y", "failed", None, answer)
    \/ \E answer \in Answers({"logs"}) : Logs("filter", answer)
    \/ \E answer \in Answers({"balance"}) : GetBalance("Y", RemoteBlock.number, answer)
    \/ \E answer \in Answers({"nonce"}) : GetNonce("Y", RemoteBlock.number, answer)
    \/ \E url \in Option(Url \cup {InvalidUrl}), n \in Option(BlockNumber) : ConfigUpdate(url, n)
    \/ DatabaseSetBalance("Y", MaxBalance)
    \/ DatabaseBasic("Y")
    \/ \E url \in Option(Url \cup {InvalidUrl}), n \in Option(BlockNumber), pinned \in BOOLEAN :
         Reset(url, n, pinned)
    \/ ClearCachedStorage
    \/ ForkReturn

SpecForkSeq == InitFork /\ [][NextForkSeq]_vars

(***************************************************************************)
(* The fork handle shared by threads.  A call is split where the code      *)
(* takes or releases a lock or awaits the endpoint: get_code checks the    *)
(* cache under the read lock, awaits the fetch, inserts under the write    *)
(* lock; reset resets the database, updates the config under its write     *)
(* lock, clears the storage under its write lock.                          *)
(*                                                                         *)
(* hist records, for the code key TrackedKey since the last step of a      *)
(* reset: how often the endpoint was asked, the bytes of the first fetch,  *)
(* the bytes returned, whether a call hit the cache, whether a fetch       *)
(* failed or two calls missed together (unfit), whether a reset is running *)
(* or a call that began before that step is involved (poisoned); and,      *)
(* while a reset runs or after it failed, the block and the cached keys it *)
(* started from (before).                                                  *)
(***************************************************************************)
\* thread t is between the check and the insert of get_code for key
InFlight(t, key) == callers[t].op = "get_code" /\ callers[t].key = key

Tracks(key) == key = TrackedKey /\ ~hist.poisoned

Once(fetches) == IF fetches = "none" THEN "once" ELSE "more"

\* the history after a step of a reset or a clear by thread t; cleared says
\* that the step cleared the storage
AfterReset(t, cleared, before) ==
    [Hist0 EXCEPT !.poisoned = \/ ~cleared
                               \/ \E u \in Thread \ {t} :
                                     InFlight(u, TrackedKey) \/ callers[u].op = "reset",
                  !.before = before]

GetCodeStart(t, address, blocknumber) ==
    LET key == <<address, blocknumber>>
        hit == get_code_cached(fork.storage, address, blocknumber)
    IN  /\ callers[t] = IdleCaller
        /\ IF hit # None
           THEN /\ callers' = callers
                /\ hist' = IF Tracks(key)
                           THEN [hist EXCEPT !.hit = TRUE, !.returned = @ \cup {unwrap(hit)}]
                           ELSE hist
           ELSE /\ callers' = [callers EXCEPT ![t] = [op |-> "get_code", pc |-> "fetch", key |-> key]]
                /\ hist' = IF Tracks(key) /\ \E u \in Thread \ {t} : InFlight(u, key)
                           THEN [hist EXCEPT !.unfit = TRUE]
                           ELSE hist
        /\ UNCHANGED <<otherVars, execVars, dbVars, fork, last>>

GetCodeFetch(t, answer) ==
    /\ callers[t].op = "get_code"
    /\ callers[t].pc = "fetch"
    /\ callers' = [callers EXCEPT ![t] =
                      IF answer.ok THEN [@ EXCEPT !.pc = "insert"] @@ [code |-> answer.val]
                      ELSE IdleCaller]
    /\ hist' = IF ~Tracks(callers[t].key) THEN hist
               ELSE [hist EXCEPT !.fetches = Once(@),
                                 !.unfit = @ \/ ~answer.ok,
                                 !.first = IF @ = None /\ answer.ok THEN Some(answer.val) ELSE @]
    /\ UNCHANGED <<otherVars, execVars, dbVars, fork, last>>

GetCodeInsert(t) ==
    /\ callers[t].op = "get_code"
    /\ callers[t].pc = "insert"
    /\ fork' = [fork EXCEPT !.storage =
                   get_code_insert(@, callers[t].key[1], callers[t].key[2], callers[t].code)]
    /\ callers' = [callers EXCEPT ![t] = IdleCaller]
    /\ hist' = [IF Tracks(callers[t].key)
                THEN [hist EXCEPT !.returned = @ \cup {callers[t].code}] ELSE hist
                EXCEPT !.before = IF @ = None THEN None
                                  ELSE Some([unwrap(@) EXCEPT !.keys = @ \ {callers[t].key}])]
    /\ UNCHANGED <<otherVars, execVars, dbVars, last>>

\* self.database.reset(url.clone(), block_number)?
ResetDatabase(t, url, number, pinned) ==
    LET d == ForkedDatabase_reset(store, url, number, pinned)
    IN  /\ callers[t] = IdleCaller
        /\ store' = d.st
        /\ IF d.ret.ok
           THEN /\ callers' = [callers EXCEPT ![t] =
                                  [op |-> "reset", pc |-> "config", url |-> url,
                                   block_number |-> number]]
                /\ hist' = AfterReset(t, FALSE,
                              IF hist.before # None THEN hist.before
                              ELSE Some([block_number |-> fork.config.block_number,
                                         pinned |-> store.pinned,
                                         keys |-> {k \in CodeKey : fork.storage.code_at[k] # None}]))
           ELSE UNCHANGED <<otherVars, callers, hist>>
        /\ UNCHANGED <<otherVars, execVars, dbop, fork, last>>

\* self.config.write().update(url, block_number)?
ResetConfig(t) ==
    LET c == ClientForkConfig_update(fork.config, callers[t].url, callers[t].block_number)
    IN  /\ callers[t].op = "reset"
        /\ callers[t].pc = "config"
        /\ fork' = [fork EXCEPT !.config = c.config]
        /\ callers' = [callers EXCEPT ![t] = IF c.ret.ok THEN [@ EXCEPT !.pc = "clear"]
                                             ELSE IdleCaller]
        /\ hist' = AfterReset(t, FALSE, hist.before)
        /\ UNCHANGED <<otherVars, execVars, dbVars, last>>

\* self.clear_cached_storage(); Ok(())
ResetClear(t) ==
    /\ callers[t].op = "reset"
    /\ callers[t].pc = "clear"
    /\ fork' = clear_cached_storage(fork)
    /\ callers' = [callers EXCEPT ![t] = IdleCaller]
    /\ hist' = AfterReset(t, TRUE, None)
    /\ UNCHANGED <<otherVars, execVars, dbVars, last>>

\* clear_cached_storage called on its own
Clear(t) ==
    /\ callers[t] = IdleCaller
    /\ fork' = clear_cached_storage(fork)
    /\ hist' = AfterReset(t, TRUE, None)
    /\ UNCHANGED <<otherVars, execVars, dbVars, callers, last>>

NextFork ==
    \/ \E t \in Thread, k \in CodeKey : GetCodeStart(t, k[1], k[2])
    \/ \E t \in Thread, answer \in Answers(Bytes) : GetCodeFetch(t, answer)
    \/ \E t \in Thread : GetCodeInsert(t)
    \/ \E t \in Thread, n \in Option(BlockNumber), pinned \in BOOLEAN :
         ResetDatabase(t, None, n, pinned)
    \/ \E t \in Thread : ResetConfig(t)
    \/ \E t \in Thread : ResetClear(t)
    \/ \E t \in Thread : Clear(t)

SpecFork == InitFork /\ [][NextFork]_vars

(***************************************************************************)
(* The block cache shared by threads.  block_by_hash, block_by_number and  *)
(* reset are split where the code takes the lock of `storage` or awaits    *)
(* the endpoint.  In block_by_number the guard of the first storage_read() *)
(* is a temporary of the whole lookup expression: it is still held when    *)
(* the closure of and_then calls storage_read() again.                     *)
(*                                                                         *)
(* The lock is parking_lot's RwLock: a writer that has asked for the lock  *)
(* waits until the readers have gone, and read() admits no new reader      *)
(* while a writer waits.  A thread's record says what it holds (reads) and *)
(* whether it waits for the write lock (pc "write").                       *)
(*                                                                         *)
(* hist.stale holds the block numbers cached by a fetch that was issued    *)
(* before the last reset cleared the cache.                                *)
(***************************************************************************)
ReadsHeld(t) == IF callers[t] = IdleCaller THEN 0 ELSE callers[t].reads
WaitsForWrite(t) == callers[t] # IdleCaller /\ callers[t].pc = "write"

\* RwLock::read is granted
CanRead == \A u \in Thread : ~WaitsForWrite(u)

\* RwLock::write is granted to t
CanWrite(t) == \A u \in Thread \ {t} : ReadsHeld(u) = 0

\* a plausible slip: the hash is recorded without the block
block_insert_hash_only(storage, number, hash, block) ==
    [storage EXCEPT !.hashes[number] = Some(hash)]

\* storage.hashes.insert(number, hash); storage.blocks.insert(hash, block)
block_insert(storage, number, hash, block) ==
    [storage EXCEPT !.hashes[number] = Some(hash), !.blocks[hash] = Some(block)]

\* the blocks the endpoint answers with: the block of that hash, of that number
BlocksByHash(hash) == {[hash |-> hash, number |-> n] : n \in BlockNumber}
BlocksByNumber(number) == {[hash |-> h, number |-> number] : h \in Hash}

Blocks0 == [stale |-> {}]

\* the blocks the endpoint may answer the request of thread t with
Asked(t) ==
    IF callers[t] = IdleCaller THEN {}
    ELSE IF callers[t].hash # None THEN BlocksByHash(unwrap(callers[t].hash))
    ELSE IF callers[t].number # None THEN BlocksByNumber(unwrap(callers[t].number))
    ELSE {}

\* block_by_hash up to the end of the lookup under the read lock
BlockByHashLookup(t, hash) ==
    /\ callers[t] = IdleCaller
    /\ CanRead
    /\ callers' = [callers EXCEPT ![t] =
                      IF fork.storage.blocks[hash] # None THEN IdleCaller
                      ELSE [op |-> "block_by_hash", pc |-> "fetch", hash |-> Some(hash),
                            number |-> None, reads |-> 0, old |-> FALSE]]
    /\ UNCHANGED <<otherVars, execVars, dbVars, fork, last, hist>>

\* block_by_number up to the read of `hashes` under the first read guard:
\* a number without hash is a miss, and the guard is dropped
BlockByNumberHashes(t, number) ==
    /\ callers[t] = IdleCaller
    /\ CanRead
    /\ callers' = [callers EXCEPT ![t] =
                      IF fork.storage.hashes[number] = None
                      THEN [op |-> "block_by_number", pc |-> "fetch", hash |-> None,
                            number |-> Some(number), reads |-> 0, old |-> FALSE]
                      ELSE [op |-> "block_by_number", pc |-> "blocks", hash |-> None,
                            number |-> Some(number), reads |-> 1, old |-> FALSE]]
    /\ UNCHANGED <<otherVars, execVars, dbVars, fork, last, hist>>

\* the closure of and_then: a second storage_read() while the first guard is
\* held, the read of `blocks`, and both guards dropped
BlockByNumberBlocks(t) ==
    /\ callers[t] # IdleCaller
    /\ callers[t].pc = "blocks"
    /\ CanRead
    /\ LET hash == fork.storage.hashes[unwrap(callers[t].number)]
       IN  callers' = [callers EXCEPT ![t] =
                          IF hash # None /\ fork.storage.blocks[unwrap(hash)] # None
                          THEN IdleCaller
                          ELSE [@ EXCEPT !.pc = "fetch", !.reads = 0]]
    /\ UNCHANGED <<otherVars, execVars, dbVars, fork, last, hist>>

\* self.provider().get_block(..).await?, then storage_write() is asked for
BlockFetch(t, answer) ==
    /\ callers[t] # IdleCaller
    /\ callers[t].pc = "fetch"
    /\ callers' = [callers EXCEPT ![t] =
                      IF ~answer.ok \/ answer.val = None THEN IdleCaller
                      ELSE [@ EXCEPT !.pc = "write"] @@ [block |-> unwrap(answer.val)]]
    /\ UNCHANGED <<otherVars, execVars, dbVars, fork, last, hist>>

\* the write lock is granted: both maps are written, the call returns
BlockInsert(t) ==
    /\ callers[t] # IdleCaller
    /\ callers[t].op \in {"block_by_hash", "block_by_number"}
    /\ callers[t].pc = "write"
    /\ CanWrite(t)
    /\ LET block == callers[t].block
           number == unwrap_or(callers[t].number, block.number)
           hash == unwrap_or(callers[t].hash, block.hash)
       IN  /\ fork' = [fork EXCEPT !.storage = block_insert(@, number, hash, block)]
           /\ hist' = [stale |-> IF callers[t].old THEN hist.stale \cup {number}
                                 ELSE hist.stale \ {number}]
    /\ callers' = [callers EXCEPT ![t] = IdleCaller]
    /\ UNCHANGED <<otherVars, execVars, dbVars, last>>

\* reset up to clear_cached_storage: the database is reset and the config
\* updated, then storage.write() is asked for
BlocksReset(t, number, pinned) ==
    /\ callers[t] = IdleCaller
    /\ LET d == ForkedDatabase_reset(store, None, number, pinned)
           c == ClientForkConfig_update(fork.config, None, number)
       IN  /\ store' = d.st
           /\ fork' = IF d.ret.ok /\ c.ret.ok THEN [fork EXCEPT !.config = c.config] ELSE fork
           /\ callers' = [callers EXCEPT ![t] =
                             IF d.ret.ok /\ c.ret.ok
                             THEN [op |-> "reset", pc |-> "write", hash |-> None, number |-> None,
                                   reads |-> 0, old |-> FALSE]
                             ELSE IdleCaller]
    /\ UNCHANGED <<otherVars, execVars, dbop, last, hist>>

\* the write lock is granted: the storage is cleared, reset returns Ok; the
\* fetches that are under way were issued before this reset
BlocksClear(t) ==
    /\ callers[t] # IdleCaller
    /\ callers[t].op = "reset"
    /\ callers[t].pc = "write"
    /\ CanWrite(t)
    /\ fork' = clear_cached_storage(fork)
    /\ callers' = [u \in Thread |->
                      IF u = t THEN IdleCaller
                      ELSE IF callers[u] # IdleCaller /\ callers[u].op # "reset"
                      THEN [callers[u] EXCEPT !.old = TRUE]
                      ELSE callers[u]]
    /\ hist' = Blocks0
    /\ UNCHANGED <<otherVars, execVars, dbVars, last>>

InitBlocks ==
    /\ fork = Fork0
    /\ store = ForkDatabase0
    /\ dbop = [op |-> "new", prev |-> NoOp]
    /\ callers = [t \in Thread |-> IdleCaller]
    /\ last = NoCall
    /\ hist = Blocks0
    /\ ExecIdle
    /\ OtherIdle

NextBlocks ==
    \/ \E t \in Thread, h \in Hash : BlockByHashLookup(t, h)
    \/ \E t \in Thread, n \in BlockNumber : BlockByNumberHashes(t, n)
    \/ \E t \in Thread : BlockByNumberBlocks(t)
    \/ \E t \in Thread :
         \E answer \in {Err("ProviderError"), Ok(None)} \cup
                       {Ok(Some(b)) : b \in Asked(t)} :
            BlockFetch(t, answer)
    \/ \E t \in Thread : BlockInsert(t)
    \/ \E t \in Thread, n \in Option(BlockNumber), pinned \in BOOLEAN : BlocksReset(t, n, pinned)
    \/ \E t \in Thread : BlocksClear(t)

SpecBlocks == InitBlocks /\ [][NextBlocks]_vars

\* every thread that is inside a call is scheduled, and the endpoint answers
\* every request
FairSpecBlocks ==
    /\ SpecBlocks
    /\ \A t \in Thread :
         /\ WF_vars(BlockByNumberBlocks(t))
         /\ WF_vars(\E answer \in OptAnswers(Asked(t)) : BlockFetch(t, answer))
         /\ WF_vars(BlockInsert(t))
         /\ WF_vars(BlocksClear(t))

(***************************************************************************)
(* Claims on the call / commit protocol (Spec)                             *)
(***************************************************************************)
Committing == {"call_raw_committing", "commit_tx_with_env", "deploy_with_env"}

\* C3: a non-committing call (call / call_raw) leaves the executor unchanged:
\* account info and storage of every address and slot, the retained
\* environment template and the inspector state are as before the call,
\* whatever changeset the call produced and whether it succeeded or reverted.
C3_NonCommittingFrame ==
    [][res'.op \in {"call", "call_raw"} =>
          /\ \A a \in Address :
                /\ basic_ref(executor'.backend, a) = basic_ref(executor.backend, a)
                /\ \A s \in Slot : executor'.backend.storage[a][s] = executor.backend.storage[a][s]
          /\ executor'.backend = executor.backend
          /\ executor'.env = executor.env
          /\ executor'.inspector = executor.inspector
          /\ executor'.gas_limit = executor.gas_limit]_vars

\* a non-committing call returned a changeset that would have changed the backend
C3_Witness ==
    /\ res.op = "call_raw"
    /\ res.ret.ok
    /\ res.ret.val.state_changeset # None
    /\ Backend_commit(executor.backend, unwrap(res.ret.val.state_changeset)) # executor.backend
    /\ res.ret.val.reverted

\* C4: after call_raw_committing, commit_tx_with_env or deploy_with_env in
\* which the interpreter returned a result, the backend's accounts and storage
\* are the pre-call ones with that result's changeset applied, for every exit
\* status; when the interpreter drive fails nothing is committed.
C4_CommitAppliesChangeset ==
    [][res'.op \in Committing =>
          IF res'.oc.err
          THEN /\ executor' = executor
               /\ ~res'.ret.ok
          ELSE /\ executor'.backend.accounts =
                    Backend_commit(executor.backend, res'.oc.state).accounts
               /\ executor'.backend.storage =
                    Backend_commit(executor.backend, res'.oc.state).storage]_vars

\* a reverted call and a failed deployment whose changesets were committed
C4_Witness ==
    /\ res.op = "deploy_with_env"
    /\ ~res.ret.ok
    /\ ~res.oc.err
    /\ res.oc.exit_reason = "Revert"
    /\ res.oc.state # NoChanges
    /\ res.oc.state["Y"] # None
    /\ executor.backend.accounts["Y"] = Some(unwrap(res.oc.state["Y"]).info)

\* C5: with X funded with B and Y empty, a non-committing call transferring B
\* from X to Y leaves get_balance(X) = B and get_balance(Y) = 0; the committing
\* call of the same transfer yields get_balance(Y) = B and get_balance(X) = 0.
C5_TransferVisibleAtCommit ==
    [][\A B \in 1 .. MaxBalance :
          (/\ res = Idle
           /\ get_balance(executor, "X") = B
           /\ get_balance(executor, "Y") = 0
           /\ res'.op \in {"call_raw", "call_raw_committing"}
           /\ res'.tx = [from |-> "X", to |-> "Y", value |-> B]
           /\ res'.ret.ok
           /\ ~res'.ret.val.reverted)
          => IF res'.op = "call_raw"
             THEN get_balance(executor', "X") = B /\ get_balance(executor', "Y") = 0
             ELSE get_balance(executor', "Y") = B /\ get_balance(executor', "X") = 0]_vars

\* the committing transfer has moved the whole balance of X to Y
C5_Witness ==
    /\ res.op = "call_raw_committing"
    /\ res.tx = [from |-> "X", to |-> "Y", value |-> MaxBalance]
    /\ res.ret.ok
    /\ ~res.ret.val.reverted
    /\ get_balance(executor, "Y") = MaxBalance
    /\ get_balance(executor, "X") = 0

(***************************************************************************)
(* Claims on success evaluation (SpecSuccess)                              *)
(***************************************************************************)
\* the value a success evaluation returned
SuccessValue(r) == IF r.op = "ensure_success" THEN r.ret.val ELSE r.ret

\* the probe call was issued, succeeded and decoded to true
ProbeSaysFailed(r) ==
    /\ r.call # None
    /\ unwrap(r.call).ok
    /\ unwrap(r.call).val.result = TRUE

\* C1: without a snapshot failure (and, for is_success, without a database
\* error) the evaluation returns should_fail XOR success, where success holds
\* exactly when the call did not revert and the failed()(bool) probe on the
\* minimal backend did not succeed with true; the four rows of the truth table
\* with the flag unset hold, and a probe that errors leaves success = ~reverted.
C1_SuccessIsShouldFailXorSuccess ==
    (/\ res.op \in {"ensure_success", "is_success"}
     /\ ~executor.backend.has_snapshot_failure
     /\ ~res.db_error)
    => LET success == ~res.reverted /\ ~ProbeSaysFailed(res)
           flagUnset == ~FailedFlag(unwrap(res.backend), res.address)
       IN  /\ res.op = "ensure_success" => res.ret.ok
           /\ SuccessValue(res) = (res.should_fail # success)
           /\ res.reverted => res.call = None
           /\ (res.should_fail /\ res.reverted) => SuccessValue(res) = TRUE
           /\ (~res.should_fail /\ res.reverted) => SuccessValue(res) = FALSE
           /\ (res.should_fail /\ ~res.reverted /\ flagUnset) => SuccessValue(res) = FALSE
           /\ (~res.should_fail /\ ~res.reverted /\ flagUnset) => SuccessValue(res) = TRUE
           /\ (res.call # None /\ ~unwrap(res.call).ok) => success = ~res.reverted

\* a test expected to fail passes because its changeset set the failure flag
C1_Witness ==
    /\ res.op = "ensure_success"
    /\ ~executor.backend.has_snapshot_failure
    /\ ~res.db_error
    /\ ~res.reverted
    /\ res.should_fail
    /\ ProbeSaysFailed(res)
    /\ res.ret = Ok(TRUE)

\* C2: with a snapshot failure reported by the backend (ensure_success,
\* is_success) or carried by the raw call result (is_raw_call_success) the
\* evaluation returns exactly should_fail, whatever reverted and the failure
\* flag are, and neither builds the minimal backend nor issues the probe.
C2_SnapshotFailureReturnsShouldFail ==
    (\/ res.op \in {"ensure_success", "is_success"} /\ executor.backend.has_snapshot_failure
     \/ res.op = "is_raw_call_success" /\ unwrap(res.call_result).has_snapshot_failure)
    => /\ res.op = "ensure_success" => res.ret.ok
       /\ SuccessValue(res) = res.should_fail
       /\ res.backend = None
       /\ res.call = None

\* a reverted raw call that set the failure flag, evaluated with a snapshot
\* failure on the call result only
C2_Witness ==
    /\ res.op = "is_raw_call_success"
    /\ unwrap(res.call_result).has_snapshot_failure
    /\ ~executor.backend.has_snapshot_failure
    /\ ~res.reverted
    /\ ~res.should_fail
    /\ res.state_changeset["Y"] # None
    /\ unwrap(res.state_changeset["Y"]).storage["failed"] = Some(1)
    /\ res.ret = FALSE

(***************************************************************************)
(* Claims on the Db stores (SpecDb)                                        *)
(***************************************************************************)
\* C6: committing a changeset is idempotent: for every reachable store and
\* every changeset c, commit(c) right after commit(c) leaves the account info
\* and storage value read for every address and slot as the first commit
\* left them.
C6_CommitIdempotent ==
    [][(dbop'.op = "commit" /\ dbop'.repeated) =>
          /\ View(store') = View(store)
          /\ store' = store]_vars

\* the same changeset, one that changed the store, committed twice in a row
C6_Witness ==
    /\ dbop.op = "commit"
    /\ dbop.repeated
    /\ store.kind = "ForkedDatabase"
    /\ dbop.changes["Y"] # None
    /\ unwrap(dbop.changes["Y"]).info.balance = 1
    /\ unwrap(dbop.changes["Y"]).storage["failed"] = Some(0)
    /\ store.accounts["Y"] = Some(unwrap(dbop.changes["Y"]).info)
    /\ store.storage["Y"]["failed"] = Some(0)

\* C7: in both stores the basic(a) that follows insert_account(a, v) returns v
\* and the storage(a, s) that follows set_storage_at(a, s, x) returns x, also
\* when another value was cached for the key or is held by the source behind
\* the store.
C7_WriteThenRead ==
    /\ (dbop.op = "basic" /\ dbop.prev.op = "insert_account"
            /\ dbop.prev.address = dbop.address)
       => dbop.ret = dbop.prev.account
    /\ (dbop.op = "storage" /\ dbop.prev.op = "set_storage_at"
            /\ dbop.prev.address = dbop.address /\ dbop.prev.slot = dbop.index)
       => dbop.ret = dbop.prev.val

\* a read after a write that replaced a cached value fetched from the remote source
C7_Witness ==
    /\ store.kind = "ForkedDatabase"
    /\ dbop.op = "basic"
    /\ dbop.prev.op = "insert_account"
    /\ dbop.prev.address = dbop.address
    /\ dbop.prev.replaced = Some(source_basic(store, dbop.address))
    /\ dbop.prev.account # source_basic(store, dbop.address)
    /\ dbop.ret = dbop.prev.account

(***************************************************************************)
(* Claims on the fork handle                                               *)
(***************************************************************************)
\* every cached read of every key would ask the endpoint
AllReadsFetch ==
    /\ \A k \in CodeKey, answer \in Answers(Bytes) : get_code(fork, k[1], k[2], answer).fetched
    /\ \A h \in Hash, answer \in OptAnswers({"tx"}) : transaction_by_hash(fork, h, answer).fetched
    /\ \A h \in Hash, answer \in Answers({"traces"}) : trace_transaction(fork, h, answer).fetched
    /\ \A n \in BlockNumber, answer \in Answers({"traces"}) : trace_block(fork, n, answer).fetched
    /\ \A h \in Hash, answer \in OptAnswers({"receipt"}) :
          transaction_receipt(fork, h, answer).fetched
    /\ \A h \in Hash, answer \in OptAnswers({RemoteBlock}) : block_by_hash(fork, h, answer).fetched
    /\ \A n \in BlockNumber, answer \in OptAnswers({RemoteBlock}) :
          block_by_number(fork, n, answer).fetched

\* C9: when reset(None, Some(N)) has returned Ok to a single caller, each of
\* the seven cached collections is empty, the overlay of the database is
\* empty, config.block_number is N, and a read of any key, previously cached
\* or not, asks the endpoint.
C9_ResetClearsState ==
    (last.op = "reset" /\ last.url = None /\ last.block_number # None /\ last.ret.ok) =>
        /\ \A c \in Collections : IsEmpty(fork.storage[c])
        /\ ~Dirty(store)
        /\ fork.config.block_number = unwrap(last.block_number)
        /\ AllReadsFetch

\* a reset to another block of a fork whose seven collections and overlay held entries
C9_Witness ==
    /\ last.op = "reset"
    /\ last.url = None
    /\ last.block_number = Some(1)
    /\ last.ret.ok
    /\ last.before.cached = Collections
    /\ last.before.dirty
    /\ last.before.block_number = 0
    /\ fork.config.block_number = 1

\* the bytes of the first fetch of the tracked key, as a set
FirstFetched == IF hist.first = None THEN {} ELSE {unwrap(hist.first)}

\* C8 as stated: for a fixed (address, block number) and with no intervening
\* reset, the endpoint is asked for the code at most once across repeated
\* get_code calls, and every call returns the bytes of that first fetch.
C8_FetchedAtMostOnce ==
    ~hist.poisoned => (hist.fetches # "more" /\ hist.returned \subseteq FirstFetched)

\* C8 amended: with no intervening reset, no failed fetch and no two get_code
\* calls for the key running at the same time, the endpoint is asked for the
\* code at most once, and every call returns the bytes of that first fetch.
C8_FetchedOncePerMiss ==
    (~hist.poisoned /\ ~hist.unfit) =>
        (hist.fetches # "more" /\ hist.returned \subseteq FirstFetched)

\* a miss that fetched and a later call answered from the cache
C8_Witness ==
    /\ ~hist.poisoned
    /\ ~hist.unfit
    /\ hist.fetches = "once"
    /\ hist.hit
    /\ hist.first # None
    /\ hist.returned = FirstFetched
    /\ fork.storage.code_at[TrackedKey] = hist.first

\* C10: reset is atomic for the other threads: in no state, during or after
\* a reset, is the new block number in place (config.block_number or the
\* pinned block of the database) while the storage still holds an entry
\* cached before the reset.
C10_ResetAtomic ==
    hist.before # None =>
        ~ /\ \/ fork.config.block_number # unwrap(hist.before).block_number
             \/ store.pinned # unwrap(hist.before).pinned
          /\ \E k \in unwrap(hist.before).keys : fork.storage.code_at[k] # None

\* C11: ClientForkConfig::update with a url no provider can be made from
\* returns InvalidUrl and leaves every field of the config as it was, also
\* when a block number is given; with a valid url the provider and
\* eth_rpc_url are both replaced by it (and stay when no url is given).
C11_UpdateUrlOrNothing ==
    [][last'.op = "update" =>
          IF last'.url = Some(InvalidUrl)
          THEN /\ last'.ret = Err([InvalidUrl |-> InvalidUrl])
               /\ fork'.config = fork.config
          ELSE /\ last'.ret.ok
               /\ fork'.config.provider = unwrap_or(last'.url, fork.config.provider)
               /\ fork'.config.eth_rpc_url = unwrap_or(last'.url, fork.config.eth_rpc_url)
               /\ fork'.config.provider = fork'.config.eth_rpc_url]_vars

\* an update with an invalid url and another block number has been refused
C11_Witness ==
    /\ last.op = "update"
    /\ last.url = Some(InvalidUrl)
    /\ last.block_number = Some(1)
    /\ ~last.ret.ok
    /\ fork.config.block_number = 0
    /\ fork.config.eth_rpc_url = "u1"

\* C12 as stated: a reset with an invalid url returns an error and leaves the
\* config record, the pinned block and the overlay of the database and the
\* cached storage exactly as they were.
C12_ResetAllOrNothing ==
    [][(last'.op = "reset" /\ last'.url = Some(InvalidUrl)) =>
          /\ ~last'.ret.ok
          /\ fork' = fork
          /\ store' = store]_vars

\* C13: when a block number is given and pinning it fails, reset returns the
\* error of that one attempt and the overlay and pinned block of the
\* database, the cached storage and the config record are unchanged.
C13_PinFailureChangesNothing ==
    [][(last'.op = "reset" /\ last'.block_number # None /\ ~last'.pinned) =>
          /\ last'.ret = Err([Internal |-> "set_pinned_block"])
          /\ fork' = fork
          /\ store' = store]_vars

\* a failed pin on a fork with a full cache and a written overlay
C13_Witness ==
    /\ last.op = "reset"
    /\ last.block_number = Some(1)
    /\ ~last.pinned
    /\ ~last.ret.ok
    /\ store.pinned = Some(0)
    /\ Dirty(store)
    /\ \A c \in Collections : ~IsEmpty(fork.storage[c])
    /\ fork.config.block_number = 0

CachedReads ==
    {"get_code", "transaction_by_hash", "trace_transaction", "trace_block",
     "transaction_receipt", "block_by_hash", "block_by_number"}

UncachedReads == {"storage_at", "logs", "get_balance", "get_nonce"}

\* C14: when the endpoint answers the fetch of a cache miss with an error,
\* the read returns that error (no default in its place) and the cache is
\* unchanged; the one answer is the only request the read makes.
C14_FetchErrorPropagates ==
    [][(last'.op \in CachedReads /\ last'.answer # None /\ ~unwrap(last'.answer).ok) =>
          /\ last'.ret = unwrap(last'.answer)
          /\ last'.fetched
          /\ fork' = fork]_vars

\* a failed fetch of a code key, with other entries cached
C14_Witness ==
    /\ last.op = "get_code"
    /\ last.key = TrackedKey
    /\ last.answer = Some(Err("ProviderError"))
    /\ last.ret = Err("ProviderError")
    /\ fork.storage.code_at[TrackedKey] = None
    /\ fork.storage.code_at[<<"Y", 1>>] # None
    /\ fork.storage.blocks["h1"] # None

\* C15: between two clears (a reset that returns Ok, clear_cached_storage) the
\* key set of every collection only grows: every step other than a clear
\* keeps each cached key, with its value.
C15_AppendOnly ==
    [][\/ last'.op = "clear_cached_storage"
       \/ (last'.op = "reset" /\ last'.ret.ok)
       \/ \A c \in Collections : \A k \in DOMAIN fork.storage[c] :
             fork.storage[c][k] # None => fork'.storage[c][k] = fork.storage[c][k]]_vars

\* a miss that added a second code key next to a cached one, all collections filled
C15_Witness ==
    /\ last.op = "get_code"
    /\ last.fetched
    /\ last.ret.ok
    /\ \A k \in CodeKey : fork.storage.code_at[k] # None
    /\ \A c \in Collections : ~IsEmpty(fork.storage[c])

\* whether the read that just returned would ask the endpoint if repeated now
RereadFetches ==
    LET a == Err("ProviderError")
        k == last.key
    IN  CASE last.op = "get_code" -> get_code(fork, k[1], k[2], a).fetched
          [] last.op = "transaction_by_hash" -> transaction_by_hash(fork, k, a).fetched
          [] last.op = "trace_transaction" -> trace_transaction(fork, k, a).fetched
          [] last.op = "trace_block" -> trace_block(fork, k, a).fetched
          [] last.op = "transaction_receipt" -> transaction_receipt(fork, k, a).fetched
          [] last.op = "block_by_hash" -> block_by_hash(fork, k, a).fetched
          [] last.op = "block_by_number" -> block_by_number(fork, k, a).fetched
          [] last.op = "storage_at" -> storage_at(fork, k[1], k[2], k[3], a).fetched
          [] last.op = "logs" -> logs(fork, k, a).fetched
          [] last.op = "get_balance" -> fork_get_balance(fork, k[1], k[2], a).fetched
          [] last.op = "get_nonce" -> get_nonce(fork, k[1], k[2], a).fetched

\* the reads whose value is optional
OptionalReads ==
    {"transaction_by_hash", "transaction_receipt", "block_by_hash", "block_by_number"}

\* the read returned a value (for an optional value: Some)
ReturnedValue == last.ret.ok /\ (last.op \in OptionalReads => last.ret.val # None)

C17_TwiceDeploysOnce ==
    [][(res.op = "deploy_create2_deployer" /\ res'.op = "deploy_create2_deployer"
          /\ res'.again /\ res'.empty) =>
          /\ res.deployed
          /\ ~res'.deployed
          /\ executor' = executor
          /\ get_balance(executor', creator) = res'.initial_balance]_vars

\* C18: without an account record for the deployer address the bootstrap
\* returns MissingAccount, makes no deployment and changes no state.
C18_MissingAccountFails ==
    [][(res'.op = "deploy_create2_deployer"
          /\ basic_ref(executor.backend, DEFAULT_CREATE2_DEPLOYER) = None) =>
          /\ res'.ret = Err([kind |-> "MissingAccount", address |-> DEFAULT_CREATE2_DEPLOYER])
          /\ ~res'.deployed
          /\ executor' = executor]_vars

\* the bootstrap failed on a backend where the creator has a balance
C18_Witness ==
    /\ res.op = "deploy_create2_deployer"
    /\ ~res.again
    /\ res.ret = Err([kind |-> "MissingAccount", address |-> DEFAULT_CREATE2_DEPLOYER])
    /\ basic_ref(executor.backend, DEFAULT_CREATE2_DEPLOYER) = None
    /\ get_balance(executor, creator) = 1
    /\ res.initial_balance = 1

\* the deployment exited with success and its output has no created address
NoAddressReturned ==
    /\ res.op = "deploy_with_env"
    /\ ~res.oc.err
    /\ return_ok(res.oc.exit_reason)
    /\ res.oc.out = Some(<<"Create", "", None>>)

\* C19 as stated: a deployment that exits with success without a created
\* address fails with an error of another kind than the execution error of
\* a reverted deployment.
C19_NoAddressIsNotExecutionError ==
    NoAddressReturned => (~res.ret.ok /\ res.ret.err.kind # "Execution")

\* C20: deploy_with_env adds an address to the persistent accounts exactly
\* when it returns Ok, and the address is the one of the DeployResult; on an
\* error return the persistent accounts are as before.
C20_PersistentIffOk ==
    [][res'.op = "deploy_with_env" =>
          IF res'.ret.ok
          THEN /\ res'.oc.out = Some(<<"Create", "", Some(res'.ret.val.address)>>)
               /\ executor'.backend.persistent_accounts =
                     executor.backend.persistent_accounts \cup {res'.ret.val.address}
          ELSE executor'.backend.persistent_accounts =
                  executor.backend.persistent_accounts]_vars

\* a deployment returned Ok and its address is the one persistent account
C20_Witness ==
    /\ res.op = "deploy_with_env"
    /\ res.ret.ok
    /\ res.ret.val.address = "Y"
    /\ executor.backend.persistent_accounts = {"Y"}

\* the account at an address has non-empty code
HasCode(backend, address) ==
    basic_ref(backend, address) # None /\ unwrap(basic_ref(backend, address)).code

\* C21: right after Executor::new the cheatcode address has non-empty code,
\* on the backend handed to new and on the executor that ensure_success
\* makes from its minimal backend for the failed() probe.
C21_CheatcodeAccountHasCode ==
    /\ res.op = "new" => HasCode(executor.backend, CHEATCODE_ADDRESS)
    /\ (res.op \in {"ensure_success", "is_success", "is_raw_call_success"}
          /\ res.backend # None /\ res.call # None) =>
          HasCode(Executor_new(unwrap(res.backend), executor.env, executor.inspector,
                               executor.gas_limit).backend,
                  CHEATCODE_ADDRESS)

\* new was given a backend whose cheatcode account had a balance and no code
C21_Witness ==
    /\ res.op = "new"
    /\ basic_ref(res.backend, CHEATCODE_ADDRESS) = Some([balance |-> MaxBalance, code |-> FALSE])
    /\ basic_ref(executor.backend, CHEATCODE_ADDRESS) = Some([balance |-> 0, code |-> TRUE])

\* the number of bytes of the calldata that are zero, that are not
ZeroBytes(calldata) == Cardinality({i \in DOMAIN calldata : calldata[i] = 0})
NonZeroBytes(calldata) == Cardinality({i \in DOMAIN calldata : calldata[i] # 0})

\* C22: calc_stipend is 21000 plus 4 for each zero byte plus, for each
\* non-zero byte, 16 when Istanbul is enabled and 68 otherwise.
C22_StipendFormula ==
    pure.op = "calc_stipend" =>
        pure.ret = 21000 + 4 * ZeroBytes(pure.calldata)
                     + (IF pure.spec \in {"ISTANBUL", "LATEST"} THEN 16 ELSE 68)
                         * NonZeroBytes(pure.calldata)

\* a zero and two non-zero bytes before Istanbul
C22_Witness ==
    /\ pure.op = "calc_stipend"
    /\ pure.calldata = <<1, 0, 255>>
    /\ pure.spec = "PETERSBURG"
    /\ pure.ret = 21140

\* the exit status of the converted call is a success status, its returned
\* data is the skip value, its returned data decodes as the function's output
StatusOk == return_ok(pure.call_result.exit_reason)
IsSkip == ~StatusOk /\ pure.call_result.result = MAGIC_SKIP
Decodes == abi_decode_output(pure.func, pure.call_result.result).ok
RetKind == IF pure.ret.ok THEN "Ok" ELSE pure.ret.err.kind

\* C23 as stated: convert_call_result returns Ok exactly when the exit status
\* is a success status, SkipError exactly when it is not and the data is the
\* skip value, and an execution error in every other case.
C23_ThreeOutcomes ==
    pure.op = "convert_call_result" =>
        /\ RetKind = "Ok" <=> StatusOk
        /\ RetKind = "SkipError" <=> IsSkip
        /\ RetKind = "Execution" <=> (~StatusOk /\ ~IsSkip)
        /\ RetKind = "Ok" => ~pure.ret.val.skipped

\* C23 amended: convert_call_result returns Ok with skipped = false exactly
\* when the exit status is a success status and the returned data decodes as
\* the function's output, the decoding error when the status is a success
\* status and the data does not decode, SkipError exactly when the status is
\* not a success status and the data is the skip value, and an execution
\* error in every other case.
C23_FourOutcomes ==
    pure.op = "convert_call_result" =>
        /\ RetKind = "Ok" <=> (StatusOk /\ Decodes)
        /\ RetKind = "AbiError" <=> (StatusOk /\ ~Decodes)
        /\ RetKind = "SkipError" <=> IsSkip
        /\ RetKind = "Execution" <=> (~StatusOk /\ ~IsSkip)
        /\ RetKind = "Ok" => ~pure.ret.val.skipped

\* a reverted call that returned the skip value
C23_Witness ==
    /\ pure.op = "convert_call_result"
    /\ pure.call_result.exit_reason = "Revert"
    /\ pure.call_result.result = MAGIC_SKIP
    /\ pure.ret = Err([kind |-> "SkipError"])

\* a call of this name on the backend has just ended
Backend2Did(op) == backend2'.op = op /\ backend2.op = "idle"

\* C24 as stated: insert_snapshot returns an id under which the state is
\* kept, and revert_snapshot of that id returns true and puts back, for every
\* address, the value it had when the snapshot was taken.
C24_SnapshotRoundTrip ==
    [][/\ Backend2Did("insert_snapshot") =>
             /\ backend2'.ret.ok
             /\ backend2'.ret.val \in DOMAIN backend2'.snapshots
             /\ backend2'.snapshots[backend2'.ret.val] = backend2.db
       /\ (Backend2Did("revert_snapshot")
             /\ unwrap(backend2'.id) \in DOMAIN backend2.snapshots) =>
             /\ backend2'.ret = Ok(TRUE)
             /\ backend2'.db = backend2.snapshots[unwrap(backend2'.id)]]_vars

\* C25 as stated: insert_snapshot returns an id above every id it returned
\* before, and revert_snapshot of an id that is not a live snapshot returns
\* false and leaves the backend as it was.
C25_SnapshotIds ==
    [][/\ Backend2Did("insert_snapshot") =>
             /\ backend2'.ret.ok
             /\ \A id \in DOMAIN backend2.snapshots : backend2'.ret.val > id
       /\ (Backend2Did("revert_snapshot")
             /\ unwrap(backend2'.id) \notin DOMAIN backend2.snapshots) =>
             /\ backend2'.ret = Ok(FALSE)
             /\ backend2'.db = backend2.db
             /\ backend2'.snapshots = backend2.snapshots]_vars

\* C26 as stated: select_fork of an id that create_fork never returned
\* returns an error and leaves the database and the forks as they were;
\* create_fork leaves the database as it was.
C26_SelectUnknownFork ==
    [][/\ (Backend2Did("select_fork") /\ unwrap(backend2'.id) \notin backend2.forks) =>
             /\ "err" \in DOMAIN backend2'.ret
             /\ backend2'.db = backend2.db
             /\ backend2'.forks = backend2.forks
       /\ Backend2Did("create_fork") => backend2'.db = backend2.db]_vars

(***************************************************************************)
(* Claims on the node's shutdown (FairSpecNode)                            *)
(***************************************************************************)
\* C27: on a shutdown signal with a fork configured, flush_cache has been
\* invoked and has returned before the handler invokes the process exit;
\* without a fork nothing is flushed; and whatever the flush did, a handler
\* that received the signal reaches the exit.
C27_FlushThenExit ==
    /\ [](node.pc \in {"exiting", "exited"} /\ node.fork # None
            => node.flush = "returned")
    /\ [](node.fork = None => node.flush = "none")
    /\ (node.pc = "signalled" ~> node.pc = "exited")

\* the handler has exited after a flush that failed and was logged
C27_Witness ==
    /\ node.pc = "exited"
    /\ node.fork # None
    /\ node.flush = "returned"
    /\ node.warned

(***************************************************************************)
(* Claims on the environment of calls (SpecEnv)                            *)
(***************************************************************************)
CommittingOps == {"call_committing", "call_raw_committing", "deploy_with_env", "setup"}
CallOps == CommittingOps \cup {"call", "call_raw"}

\* C28: after a committing call (call_committing, call_raw_committing,
\* deploy, setup) has returned a result, the executor's environment template
\* carries the block fields of the environment that call returned.
C28_TemplateCarriesReturnedBlock ==
    res.op \in CommittingOps /\ res.ret.ok =>
        executor.env.block = res.ret.val.env.block

\* C29: the environment of every call has the gas limit override as its
\* transaction gas limit and the block gas limit the template declared when
\* the call was made, whatever set_gas_limit has set.
C29_BlockGasLimitOfTemplate ==
    [][res.op = "idle" /\ res'.op \in CallOps /\ res'.ret.ok =>
         /\ res'.ret.val.env.tx.gas_limit = executor.gas_limit
         /\ res'.ret.val.env.block.gas_limit = executor.env.block.gas_limit]_vars

\* C30: the result of call and call_raw carries Some(changeset), the result
\* of call_committing and call_raw_committing carries None.
C30_ChangesetIffNotCommitted ==
    res.op \in {"call", "call_raw", "call_committing", "call_raw_committing"} /\ res.ret.ok =>
        (res.ret.val.state_changeset # None <=> res.op \in {"call", "call_raw"})

(***************************************************************************)
(* Claims on the inspector state kept by commit (Spec)                     *)
(***************************************************************************)
\* the pending broadcastable transactions of the retained cheatcode state
Pending(ex) ==
    IF ex.inspector.cheatcodes = None THEN 0
    ELSE unwrap(ex.inspector.cheatcodes).broadcastable_transactions

\* C31: after a committing call in which the interpreter returned a result,
\* the cheatcode state retained in the inspector has no pending broadcastable
\* transaction; the result reports the transactions recorded during that
\* call, and none when that call recorded none.
C31_BroadcastClearedAtCommit ==
    res.op \in Committing /\ ~res.oc.err =>
        /\ Pending(executor) = 0
        /\ res.op # "deploy_with_env" /\ res.ret.ok =>
              res.ret.val.transactions = IF res.oc.effect.broadcast THEN Some(1) ELSE None

\* a committing call recorded a transaction: it is on the result and no
\* longer in the inspector
C31_Witness ==
    /\ res.op = "call_raw_committing"
    /\ res.ret.ok
    /\ res.oc.effect.broadcast
    /\ res.ret.val.transactions = Some(1)
    /\ executor.inspector.cheatcodes # None
    /\ Pending(executor) = 0

(***************************************************************************)
(* Claims on test function names (SpecPure)                                *)
(***************************************************************************)
\* C32: is_test_skipped is true exactly when the name is longer than four
\* characters and is "skip" immediately followed by "test" or "Test" and then
\* anything; "skiptest" and "skipTest" are skipped, "skip" and "skipF" are not.
C32_SkippedNames ==
    /\ pure.op = "is_test_skipped" =>
          pure.ret = (/\ Len(pure.name) > 4
                      /\ Len(pure.name) >= 8
                      /\ SubSeq(pure.name, 1, 4) = <<"s", "k", "i", "p">>
                      /\ SubSeq(pure.name, 5, 8) \in {<<"t", "e", "s", "t">>,
                                                      <<"T", "e", "s", "t">>})
    /\ is_test_skipped(<<"s", "k", "i", "p", "t", "e", "s", "t">>)
    /\ is_test_skipped(<<"s", "k", "i", "p", "T", "e", "s", "t">>)
    /\ ~is_test_skipped(<<"s", "k", "i", "p">>)
    /\ ~is_test_skipped(<<"s", "k", "i", "p", "F">>)

\* "skipTest" was found skipped
C32_Witness ==
    /\ pure.op = "is_test_skipped"
    /\ pure.name = <<"s", "k", "i", "p", "T", "e", "s", "t">>
    /\ pure.ret

(***************************************************************************)
(* Claims on the endpoints behind the fork handle (SpecForkSeq)            *)
(***************************************************************************)
ForkReads ==
    {"get_code", "transaction_by_hash", "trace_transaction", "trace_block",
     "transaction_receipt", "block_by_hash", "block_by_number", "storage_at", "logs",
     "get_balance", "get_nonce"}

\* C33: ClientFork::reset(Some(url), b) that returns Ok makes the provider of
\* the new url the one the handle's own reads ask, and leaves the source the
\* database fetches from as it was; every fetch of a handle read goes to the
\* provider of the config, every fetch of the database to the source the
\* database was created with.
C33_UrlNotAppliedToDatabase ==
    [][/\ (last = NoCall /\ last'.op = "reset" /\ last'.ret.ok /\ last'.url # None)
            => /\ provider(fork') = unwrap(last'.url)
               /\ store'.source = store.source
       /\ (last = NoCall /\ last'.op \in ForkReads /\ last'.fetched)
            => last'.provider = Some(fork.config.eth_rpc_url)
       /\ (last = NoCall /\ last'.op = "basic" /\ last'.fetched)
            => last'.source = ForkDatabase0.source]_vars

\* a reset to the endpoint u1 has returned Ok: the handle asks u1, the
\* database still fetches from the source it was created with
C33_Witness ==
    /\ last.op = "reset"
    /\ last.url = Some("u1")
    /\ last.ret.ok
    /\ provider(fork) = "u1"
    /\ fork.config.eth_rpc_url = "u1"
    /\ store.source = ForkDatabase0.source
    /\ db_basic(store, "Y").ret = source_basic(ForkDatabase0, "Y")

(***************************************************************************)
(* Claims on the block cache under concurrent calls (SpecBlocks)           *)
(***************************************************************************)
\* C34: every block_by_number call eventually returns: taking the read lock
\* a second time while the first guard is held does not deadlock with a
\* thread that waits for the write lock.
C34_BlockByNumberReturns ==
    \A t \in Thread :
        (callers[t] # IdleCaller /\ callers[t].op = "block_by_number") ~> (callers[t] = IdleCaller)

\* C35: under any interleaving of block_by_hash, block_by_number and reset,
\* every number -> hash entry of `hashes` has a block stored under that hash.
C35_HashesHaveBlocks ==
    \A n \in BlockNumber :
        fork.storage.hashes[n] # None => fork.storage.blocks[unwrap(fork.storage.hashes[n])] # None

\* two threads have cached blocks, one by hash and one by number
C35_Witness ==
    /\ fork.storage.hashes[0] # None
    /\ fork.storage.hashes[1] # None
    /\ fork.storage.blocks["h1"] # None
    /\ \E t \in Thread : callers[t] # IdleCaller /\ callers[t].op = "reset"

\* C36: no entry of the cache comes from a fetch that was issued before the
\* last reset cleared it.
C36_NoStaleEntries == hist.stale = {}

(***************************************************************************)
(* Claims on the error paths of the executor                               *)
(***************************************************************************)
\* C37: on every return path of deploy_create2_deployer, the error paths
\* included, the creator's balance is the one it held before the call.
C37_CreatorBalanceOnEveryPath ==
    [][res'.op = "deploy_create2_deployer" =>
          get_balance(executor', creator) = get_balance(executor, creator)]_vars

\* C38: when reading the account info of the target or of the cheatcode
\* address fails during success evaluation, ensure_success returns the
\* database error and is_success returns false, for should_fail true and
\* false alike; the probe is not issued.
C38_DatabaseErrorIsFalse ==
    (/\ res.op \in {"ensure_success", "is_success"}
     /\ res.db_error
     /\ ~executor.backend.has_snapshot_failure)
    => /\ res.op = "ensure_success" => res.ret = Err("DatabaseError")
       /\ res.op = "is_success" => res.ret = FALSE
       /\ res.call = None

\* a test expected to fail whose evaluation met a database error is
\* reported as not passing
C38_Witness ==
    /\ res.op = "is_success"
    /\ res.db_error
    /\ ~executor.backend.has_snapshot_failure
    /\ res.should_fail
    /\ res.reverted
    /\ res.ret = FALSE

\* the error setup builds itself when the success evaluation says no
SetupFailed(r) ==
    /\ r.op = "setup"
    /\ ~r.ret.ok
    /\ r.ret.err.kind = "Execution"
    /\ r.ret.err.reason = "execution error"

\* C39: when the setUp() call did not revert and the success evaluation
\* fails, setup returns the execution error while the backend holds the
\* committed changeset of the call and the retained block environment and
\* chain id are those of the environment the call ran in: nothing of the
\* failed setup is rolled back.
C39_FailedSetupNotRolledBack ==
    [][res.op = "idle" /\ SetupFailed(res') =>
         LET env == build_test_env(executor, res'.tx.from, <<"Call", res'.tx.to>>,
                                   "setUp()", 0)
             committed == Backend_commit(executor.backend, res'.oc.state)
         IN  /\ ~res'.ret.err.reverted
             /\ res'.ret.err.state_changeset = None
             /\ executor'.backend.accounts = committed.accounts
             /\ executor'.backend.storage = committed.storage
             /\ executor'.env.block = env.block
             /\ executor'.env.cfg.chain_id = env.cfg.chain_id]_vars

\* a failed setup whose write of `failed` is in the backend and whose block
\* environment replaced the template's
C39_Witness ==
    /\ SetupFailed(res)
    /\ res.oc.exit_reason = "Return"
    /\ executor.backend.storage["Y"]["failed"] = 1
    /\ executor.backend.accounts["Y"] # EmptyBackend.accounts["Y"]
    /\ executor.env.block # EnvTemplate.block
    /\ executor.env.block.basefee = 0

(***************************************************************************)
(* Claims on the pinned block of the fork config (SpecForkSeq)             *)
(***************************************************************************)
\* C40: after ClientFork::reset(_, Some(N)) returned Ok, the config's block
\* number is N and the config's block hash is the hash of block N.
C40_PinnedHashOfPinnedNumber ==
    (/\ last.op = "reset"
     /\ last.ret.ok
     /\ last.block_number # None)
    => /\ fork.config.block_number = unwrap(last.block_number)
       /\ fork.config.block_hash = RemoteHash(unwrap(last.block_number))

====
